---- MODULE Spec2Model ----
(***************************************************************************)
(* FlockNet: the server queue engine (bounded buffer, AQM strategy,        *)
(* drainer), the agents that feed it, the shared metrics collector and the *)
(* simulation harness (ready barrier, snapshot timer, cancellation).       *)
(*                                                                         *)
(* Time is an integer number of milliseconds.  Floating point quantities   *)
(* are kept in fixed point: probabilities in parts per million, averaged   *)
(* queue lengths in thousandths of a packet, delays in microseconds.       *)
(***************************************************************************)
EXTENDS Integers, Sequences, FiniteSets, TLC

\* ------------------------------------------------------------------ bounds
NumAgents == 2
NumServers == 2
MaxPackets == 2
MaxTicks == 1
MaxBuffer == 2
SimMaxPackets == 1
SimDuration == 2
ScenarioBuffer == 4
ScenarioPackets == 10

\* one step of the clock, in milliseconds
TickMs == 100

Agents == 1..NumAgents
Servers == 1..NumServers

\* --------------------------------------------------------- program constants
\* fixed-point units: parts per million, thousandths of a packet
PpmOne == 1000 * 1000
AvgOne == 10 * 100

RedWqPct == 2
RedMaxP == 100000
RedMinFloor == 5

AredAlpha == 10000
AredBetaPct == 90
AredPeriodMs == 500
AredMaxPHigh == 500000
AredMaxPLow == 10000

BlueD1 == 20000
BlueD2 == 2000
BlueFreezeMs == 100

CodelTargetMs == 5
CodelIntervalMs == 100

PieTargetUs == 15000
PieAlphaMilli == 125
PieBetaMilli == 1250
PieUpdateMs == 30
PieBurstMs == 150
PieBurstQueue == 10
PiePacketDelayUs == 120

FqFlows == 1024
FqPacketUs == 120

SettleMs == 100
TickIntervalMs == 1000
UpdateEvery == 3
SojournWindow == 100

\* an unset Option<Instant>
None == 0 - 1

RECURSIVE SeqSum(_)
SeqSum(q) == IF q = <<>> THEN 0 ELSE Head(q) + SeqSum(Tail(q))

Min(a, b) == IF a <= b THEN a ELSE b
Max(a, b) == IF a >= b THEN a ELSE b

\* the registered strategy names (aliases share a factory)
StrategyNames ==
  {"drop-tail", "fifo", "red", "adaptive-red", "blue", "codel", "pie", "fq-codel"}

\* the keys of the registry: the names and their aliases
RegistryKeys == StrategyNames \cup {"droptail", "ared", "fqcodel"}

\* str::to_lowercase on the spellings a configuration may use
ToLowercase(name) ==
  CASE name = "Drop-Tail" -> "drop-tail"
    [] name = "DROPTAIL" -> "droptail"
    [] name = "ARED" -> "ared"
    [] name = "FqCoDel" -> "fqcodel"
    [] name = "Unregistered" -> "unregistered"
    [] OTHER -> name

\* Packet::new: id, source agent, destination server, creation time
Packet(id, src, dst, t) == [id |-> id, source_agent |-> src, destination_server |-> dst, created_at |-> t]

\* ------------------------------------------------------- Drop-Tail and FIFO
DropTailNew(size) == [kind |-> "drop-tail", buffer_size |-> size]

FifoNew(size) == [kind |-> "fifo", buffer_size |-> size]

DropTailOnEnqueueOff(st, queue_len) ==
  {[action |-> IF queue_len > st.buffer_size THEN "Drop" ELSE "Accept", st |-> st]}

DropTailOnEnqueue(st, queue_len) ==
  {[action |-> IF queue_len >= st.buffer_size THEN "Drop" ELSE "Accept", st |-> st]}

FifoOnEnqueue(st, queue_len) ==
  {[action |-> IF queue_len >= st.buffer_size THEN "Drop" ELSE "Accept", st |-> st]}

\* ---------------------------------------------------------------------- RED
\* min_th = max(0.3 B, 5), max_th = 0.9 B, in thousandths of a packet
RedNew(size) ==
  [kind |-> "red", min_th |-> Max((3 * size * AvgOne) \div 10, RedMinFloor * AvgOne),
   max_th |-> (9 * size * AvgOne) \div 10, max_p |-> RedMaxP, avg_queue |-> 0, count |-> 0]

\* avg <- (1 - w_q) avg + w_q queue_len
RedEwma(avg, queue_len) == ((100 - RedWqPct) * avg + RedWqPct * queue_len * AvgOne) \div 100

\* p_b = ((avg - min_th) / (max_th - min_th)) max_p as the fraction
\* RedBaseNum / RedBaseDen, both in thousandths of a packet (max_p is in
\* millionths, and the product is taken in two parts to stay in range)
RedBaseNum(st, avg) ==
  (avg - st.min_th) * (st.max_p \div 1000) + ((avg - st.min_th) * (st.max_p % 1000)) \div 1000

RedBaseDen(st) == (st.max_th - st.min_th) * 1000

\* calc_probability, as the sign and size of p = p_b / (1 - count p_b):
\* "zero" (p <= 0, never drops), "one" (p >= 1, always drops), "band" (0 < p < 1)
RedCalcProbability(st, avg) ==
  IF avg < st.min_th THEN "zero"
  ELSE IF avg >= st.max_th THEN "one"
  ELSE LET num == RedBaseNum(st, avg)
           den == RedBaseDen(st)
           d == den - st.count * num
       IN IF num = 0 THEN "zero"
          ELSE IF d < 0 THEN "zero"
          ELSE IF d = 0 THEN "one"
          ELSE IF num >= d THEN "one" ELSE "band"

RedOnEnqueue(st, queue_len) ==
  LET avg == RedEwma(st.avg_queue, queue_len)
      s1 == [st EXCEPT !.avg_queue = avg]
      p == RedCalcProbability(s1, avg)
      drop == [action |-> "Drop", st |-> [s1 EXCEPT !.count = 0]]
      accept == [action |-> "Accept", st |-> [s1 EXCEPT !.count = s1.count + 1]]
  IN IF p = "one" THEN {drop}
     ELSE IF p = "band" THEN {drop, accept}
     ELSE {accept}

RedUpdate(st, queue_len) == [st EXCEPT !.avg_queue = RedEwma(st.avg_queue, queue_len)]

\* ------------------------------------------------------------- Adaptive RED
AdaptiveRedNew(size, t) ==
  [kind |-> "adaptive-red", red |-> RedNew(size),
   target |-> (RedNew(size).min_th + RedNew(size).max_th) \div 2, last_update |-> t]

AdaptiveRedOnEnqueue(st, queue_len) ==
  {[action |-> r.action, st |-> [st EXCEPT !.red = r.st]] : r \in RedOnEnqueue(st.red, queue_len)}

AdaptiveRedUpdate(st, queue_len, t) ==
  LET r == RedUpdate(st.red, queue_len)
      adj == IF r.avg_queue < st.target /\ r.max_p < AredMaxPHigh
               THEN [r EXCEPT !.max_p = r.max_p + Min(AredAlpha, r.max_p \div 4)]
             ELSE IF r.avg_queue > st.target /\ r.max_p > AredMaxPLow
               THEN [r EXCEPT !.max_p = (r.max_p * AredBetaPct) \div 100]
             ELSE r
  IN IF t - st.last_update >= AredPeriodMs
       THEN [st EXCEPT !.red = adj, !.last_update = t]
       ELSE [st EXCEPT !.red = r]

\* --------------------------------------------------------------------- BLUE
BlueNew(size, t) ==
  [kind |-> "blue", p_mark |-> 0, buffer_size |-> size, last_update |-> t,
   last_increase |-> t, last_decrease |-> t, last_loss_event |-> None]

BlueCanIncrease(st, t) == t - st.last_increase >= BlueFreezeMs

BlueCanDecrease(st, t) == t - st.last_decrease >= BlueFreezeMs

BlueOnEnqueue(st, queue_len, t) ==
  LET threshold == (8 * st.buffer_size) \div 10
      s1 == IF queue_len >= threshold /\ BlueCanIncrease(st, t)
              THEN [st EXCEPT !.p_mark = Min(st.p_mark + BlueD1, PpmOne), !.last_increase = t]
              ELSE st
      s2 == IF s1.last_loss_event # None /\ t - s1.last_loss_event < BlueFreezeMs
              THEN [s1 EXCEPT !.p_mark = Min(s1.p_mark + 2 * BlueD1, PpmOne)]
              ELSE s1
  IN IF queue_len >= st.buffer_size
       THEN {[action |-> "Drop", st |-> [s2 EXCEPT !.last_loss_event = t, !.last_increase = t]]}
     ELSE IF s1.p_mark >= PpmOne THEN {[action |-> "Drop", st |-> s1]}
     ELSE IF s1.p_mark > 0
       THEN {[action |-> "Drop", st |-> s1], [action |-> "Accept", st |-> s1]}
     ELSE {[action |-> "Accept", st |-> s1]}

BlueOnDequeueUnclamped(st, queue_len, t) ==
  IF /\ queue_len < st.buffer_size \div 4
     /\ BlueCanDecrease(st, t)
     /\ (st.last_loss_event = None \/ t - st.last_loss_event > 2 * BlueFreezeMs)
    THEN [st EXCEPT !.p_mark = st.p_mark - BlueD2, !.last_decrease = t]
    ELSE st

BlueOnDequeue(st, queue_len, t) ==
  IF /\ queue_len < st.buffer_size \div 4
     /\ BlueCanDecrease(st, t)
     /\ (st.last_loss_event = None \/ t - st.last_loss_event > 2 * BlueFreezeMs)
    THEN [st EXCEPT !.p_mark = Max(st.p_mark - BlueD2, 0), !.last_decrease = t]
    ELSE st

BlueUpdate(st, queue_len, t) ==
  LET target == st.buffer_size \div 2
  IN IF t - st.last_update > 5 * BlueFreezeMs
       THEN IF queue_len > target /\ 2 * st.p_mark < PpmOne
              THEN [st EXCEPT !.p_mark = Min(st.p_mark + BlueD1 \div 2, PpmOne), !.last_update = t]
            ELSE IF queue_len < target \div 2 /\ 100 * st.p_mark > PpmOne
              THEN [st EXCEPT !.p_mark = Max(st.p_mark - BlueD2 \div 2, 0), !.last_update = t]
            ELSE [st EXCEPT !.last_update = t]
       ELSE st

\* -------------------------------------------------------------------- CoDel
\* queue holds QueuedPacket records, the packet by its key; dropped is not a
\* field of the struct: it lists the packets the drop steps of on_dequeue
\* popped, in order
CoDelNew(size, t) ==
  [kind |-> "codel", first_above_time |-> None, drop_next |-> t, count |-> 0,
   dropping |-> FALSE, queue |-> <<>>, buffer_size |-> size, dropped |-> <<>>]

QueuedPacket(packet, t) == [packet |-> <<packet.source_agent, packet.id>>, enqueue_time |-> t]

\* interval / sqrt(max(count, 1)), rounded up to the clock's resolution
ControlLawMs(count) ==
  LET c == Max(count, 1)
  IN CHOOSE k \in 0..CodelIntervalMs :
       /\ k * k * c >= CodelIntervalMs * CodelIntervalMs
       /\ \A j \in 0..(k - 1) : j * j * c < CodelIntervalMs * CodelIntervalMs

CoDelOnEnqueue(st, packet, t) ==
  IF Len(st.queue) >= st.buffer_size
    THEN {[action |-> "Drop", st |-> st]}
    ELSE {[action |-> "Accept",
           st |-> [st EXCEPT !.queue = Append(st.queue, QueuedPacket(packet, t))]]}

CoDelNeverBelowTarget(sojourn_time) == FALSE

\* the test of on_dequeue's first branch: the head waited less than the target
CoDelBelowTarget(sojourn_time) == sojourn_time < CodelTargetMs

RECURSIVE CoDelOnDequeueCountsEarly(_, _)
CoDelOnDequeueCountsEarly(st, t) ==
  IF st.queue = <<>>
    THEN [st EXCEPT !.dropping = FALSE, !.first_above_time = None]
  ELSE LET sojourn_time == t - Head(st.queue).enqueue_time
           popped == [st EXCEPT !.queue = Tail(st.queue)]
           dropped == Append(st.dropped, Head(st.queue).packet)
       IN IF CoDelBelowTarget(sojourn_time)
            THEN [popped EXCEPT !.first_above_time = None, !.dropping = FALSE]
          ELSE IF st.first_above_time = None
            THEN [popped EXCEPT !.first_above_time = t, !.count = st.count + 1]
          ELSE IF t - st.first_above_time < CodelIntervalMs
            THEN popped
          ELSE IF ~st.dropping
            THEN CoDelOnDequeueCountsEarly(
                   [popped EXCEPT !.dropping = TRUE, !.count = 1, !.drop_next = t,
                                  !.dropped = dropped], t)
          ELSE IF t >= st.drop_next
            THEN CoDelOnDequeueCountsEarly(
                   [popped EXCEPT !.count = st.count + 1,
                                  !.drop_next = t + ControlLawMs(st.count + 1),
                                  !.dropped = dropped], t)
          ELSE popped

RECURSIVE CoDelOnDequeueKeepsState(_, _)
CoDelOnDequeueKeepsState(st, t) ==
  IF st.queue = <<>>
    THEN st
  ELSE LET sojourn_time == t - Head(st.queue).enqueue_time
           popped == [st EXCEPT !.queue = Tail(st.queue)]
           dropped == Append(st.dropped, Head(st.queue).packet)
       IN IF CoDelBelowTarget(sojourn_time)
            THEN [popped EXCEPT !.first_above_time = None, !.dropping = FALSE]
          ELSE IF st.first_above_time = None
            THEN [popped EXCEPT !.first_above_time = t]
          ELSE IF t - st.first_above_time < CodelIntervalMs
            THEN popped
          ELSE IF ~st.dropping
            THEN CoDelOnDequeueKeepsState(
                   [popped EXCEPT !.dropping = TRUE, !.count = 1, !.drop_next = t,
                                  !.dropped = dropped], t)
          ELSE IF t >= st.drop_next
            THEN CoDelOnDequeueKeepsState(
                   [popped EXCEPT !.count = st.count + 1,
                                  !.drop_next = t + ControlLawMs(st.count + 1),
                                  !.dropped = dropped], t)
          ELSE popped

RECURSIVE CoDelOnDequeue(_, _)
CoDelOnDequeue(st, t) ==
  IF st.queue = <<>>
    THEN [st EXCEPT !.dropping = FALSE, !.first_above_time = None]
  ELSE LET sojourn_time == t - Head(st.queue).enqueue_time
           popped == [st EXCEPT !.queue = Tail(st.queue)]
           dropped == Append(st.dropped, Head(st.queue).packet)
       IN IF CoDelBelowTarget(sojourn_time)
            THEN [popped EXCEPT !.first_above_time = None, !.dropping = FALSE]
          ELSE IF st.first_above_time = None
            THEN [popped EXCEPT !.first_above_time = t]
          ELSE IF t - st.first_above_time < CodelIntervalMs
            THEN popped
          ELSE IF ~st.dropping
            THEN CoDelOnDequeue([popped EXCEPT !.dropping = TRUE, !.count = 1, !.drop_next = t,
                                               !.dropped = dropped], t)
          ELSE IF t >= st.drop_next
            THEN CoDelOnDequeue([popped EXCEPT !.count = st.count + 1,
                                               !.drop_next = t + ControlLawMs(st.count + 1),
                                               !.dropped = dropped], t)
          ELSE popped

\* ---------------------------------------------------------------------- PIE
PieNew(t) ==
  [kind |-> "pie", drop_prob |-> 0, last_update |-> t, qdelay_old |-> 0, burst_start |-> None]

PieEstimateQueueDelay(queue_len) == queue_len * PiePacketDelayUs

PieOnEnqueue(st, queue_len, t) ==
  LET s1 == IF queue_len < PieBurstQueue THEN [st EXCEPT !.burst_start = t] ELSE st
  IN IF st.burst_start # None /\ t - st.burst_start < PieBurstMs
       THEN {[action |-> "Accept", st |-> st]}
     ELSE IF s1.drop_prob >= PpmOne THEN {[action |-> "Drop", st |-> s1]}
     ELSE IF s1.drop_prob > 0
       THEN {[action |-> "Drop", st |-> s1], [action |-> "Accept", st |-> s1]}
     ELSE {[action |-> "Accept", st |-> s1]}

\* avg_sojourn_us: the drainer's mean sojourn, in microseconds. The change of
\* drop_prob is alpha (qdelay - target) + beta (qdelay - qdelay_old), which is
\* alpha (p + (beta / alpha) i); a change beyond +-1 is cut to +-1 before the
\* multiplication, which the clamp to [0, 1] makes no different.
PieUpdate(st, queue_len, avg_sojourn_us, t) ==
  LET qdelay == IF avg_sojourn_us > 0 THEN avg_sojourn_us ELSE PieEstimateQueueDelay(queue_len)
      p == qdelay - PieTargetUs
      i == qdelay - st.qdelay_old
      x == p + (PieBetaMilli \div PieAlphaMilli) * i
      one == PpmOne \div PieAlphaMilli
      change == IF x >= one THEN PpmOne ELSE IF x <= 0 - one THEN 0 - PpmOne
                ELSE PieAlphaMilli * x
  IN IF t - st.last_update < PieUpdateMs THEN st
     ELSE [st EXCEPT !.drop_prob = Max(0, Min(PpmOne, st.drop_prob + change)),
                     !.qdelay_old = qdelay, !.last_update = t]

\* ----------------------------------------------------------------- FQ-CoDel
\* a map (HashMap) with key k set to v
Put(f, k, v) == [x \in (DOMAIN f) \cup {k} |-> IF x = k THEN v ELSE f[x]]

EmptyMap == [x \in {} |-> 0]

FlowStateNew(t) == [first_above_time |-> None, drop_next |-> t, count |-> 0, dropping |-> FALSE]

FqCoDelNew(size) ==
  [kind |-> "fq-codel", flow_states |-> EmptyMap, flow_queues |-> EmptyMap, buffer_size |-> size]

FqHashFlow(packet) == packet.source_agent % FqFlows

RECURSIVE FqSum(_, _)
FqSum(f, keys) ==
  IF keys = {} THEN 0
  ELSE LET k == CHOOSE x \in keys : TRUE IN Len(f[k]) + FqSum(f, keys \ {k})

FqTotalQueueLength(st) == FqSum(st.flow_queues, DOMAIN st.flow_queues)

FqFlowQueueLength(st, flow_id) ==
  IF flow_id \in DOMAIN st.flow_queues THEN Len(st.flow_queues[flow_id]) ELSE 0

\* estimate_sojourn_time, in microseconds
FqEstimateSojournUs(st, flow_id) == FqFlowQueueLength(st, flow_id) * FqPacketUs

\* the per-flow CoDel decision of on_enqueue: [drop, state]
FqFlowDecision(state, sojourn_us, t) ==
  IF sojourn_us < CodelTargetMs * 1000
    THEN [drop |-> FALSE,
          state |-> [state EXCEPT !.first_above_time = None, !.dropping = FALSE, !.count = 0]]
  ELSE LET s1 == IF state.first_above_time = None
                   THEN [state EXCEPT !.first_above_time = t] ELSE state
       IN IF t - s1.first_above_time > CodelIntervalMs
            THEN IF ~s1.dropping
                   THEN [drop |-> TRUE,
                         state |-> [s1 EXCEPT !.dropping = TRUE, !.count = 1, !.drop_next = t]]
                 ELSE IF t >= s1.drop_next
                   THEN [drop |-> TRUE,
                         state |-> [s1 EXCEPT !.count = s1.count + 1,
                                              !.drop_next = t + ControlLawMs(s1.count)]]
                 ELSE [drop |-> FALSE, state |-> s1]
            ELSE [drop |-> FALSE, state |-> s1]

FqNeverFull(st) == FALSE

\* the check of on_enqueue that the total buffer is full
FqFull(st) == FqTotalQueueLength(st) >= st.buffer_size

FqCoDelOnEnqueue(st, packet, t) ==
  LET flow_id == FqHashFlow(packet)
      state == IF flow_id \in DOMAIN st.flow_states
                 THEN st.flow_states[flow_id] ELSE FlowStateNew(t)
      d == FqFlowDecision(state, FqEstimateSojournUs(st, flow_id), t)
      s1 == [st EXCEPT !.flow_states = Put(st.flow_states, flow_id, d.state)]
      q == IF flow_id \in DOMAIN st.flow_queues THEN st.flow_queues[flow_id] ELSE <<>>
  IN IF FqFull(st)
       THEN {[action |-> "Drop", st |-> st]}
     ELSE IF d.drop THEN {[action |-> "Drop", st |-> s1]}
     ELSE {[action |-> "Accept",
            st |-> [s1 EXCEPT !.flow_queues = Put(s1.flow_queues, flow_id, Append(q, t))]]}

FqCoDelOnDequeueNone(st) == st

\* pops one packet from the non-empty flow with the smallest id
FqCoDelOnDequeue(st) ==
  LET busy == {f \in DOMAIN st.flow_queues : st.flow_queues[f] # <<>>}
  IN IF busy = {} THEN st
     ELSE LET f == CHOOSE x \in busy : \A y \in busy : x <= y
          IN [st EXCEPT !.flow_queues[f] = Tail(st.flow_queues[f])]

FqStateBusy(state) == state.dropping \/ state.first_above_time # None

FqQueueBusy(queue) == queue # <<>>

FqCoDelUpdate(st) ==
  LET states == {f \in DOMAIN st.flow_states : FqStateBusy(st.flow_states[f])}
      queues == {f \in DOMAIN st.flow_queues : FqQueueBusy(st.flow_queues[f])}
  IN [st EXCEPT !.flow_states = [f \in states |-> st.flow_states[f]],
                !.flow_queues = [f \in queues |-> st.flow_queues[f]]]

\* ------------------------------------------------- registry and dispatching
\* StrategyRegistry::create for a registered name
StrategyCreate(name, size, t) ==
  LET key == ToLowercase(name)
  IN CASE key \in {"drop-tail", "droptail"} -> DropTailNew(size)
       [] key = "fifo" -> FifoNew(size)
       [] key = "red" -> RedNew(size)
       [] key \in {"adaptive-red", "ared"} -> AdaptiveRedNew(size, t)
       [] key = "blue" -> BlueNew(size, t)
       [] key = "codel" -> CoDelNew(size, t)
       [] key = "pie" -> PieNew(t)
       [] key \in {"fq-codel", "fqcodel"} -> FqCoDelNew(size)

\* Strategy::on_enqueue: the set of possible [action, st] (the draws of rand)
OnEnqueue(st, packet, queue_len, t) ==
  CASE st.kind = "drop-tail" -> DropTailOnEnqueue(st, queue_len)
    [] st.kind = "fifo" -> FifoOnEnqueue(st, queue_len)
    [] st.kind = "red" -> RedOnEnqueue(st, queue_len)
    [] st.kind = "adaptive-red" -> AdaptiveRedOnEnqueue(st, queue_len)
    [] st.kind = "blue" -> BlueOnEnqueue(st, queue_len, t)
    [] st.kind = "codel" -> CoDelOnEnqueue(st, packet, t)
    [] st.kind = "pie" -> PieOnEnqueue(st, queue_len, t)
    [] st.kind = "fq-codel" -> FqCoDelOnEnqueue(st, packet, t)

\* Strategy::on_dequeue
OnDequeue(st, queue_len, t) ==
  CASE st.kind = "blue" -> BlueOnDequeue(st, queue_len, t)
    [] st.kind = "codel" -> CoDelOnDequeue(st, t)
    [] st.kind = "fq-codel" -> FqCoDelOnDequeue(st)
    [] OTHER -> st

\* Strategy::update
Update(st, queue_len, avg_sojourn_us, t) ==
  CASE st.kind = "red" -> RedUpdate(st, queue_len)
    [] st.kind = "adaptive-red" -> AdaptiveRedUpdate(st, queue_len, t)
    [] st.kind = "blue" -> BlueUpdate(st, queue_len, t)
    [] st.kind = "pie" -> PieUpdate(st, queue_len, avg_sojourn_us, t)
    [] st.kind = "fq-codel" -> FqCoDelUpdate(st)
    [] OTHER -> st

\* -------------------------------------------------------------------- reset
DropTailReset(st) == st

FifoReset(st) == st

RedReset(st) == [st EXCEPT !.avg_queue = 0, !.count = 0]

AdaptiveRedReset(st, t) == [st EXCEPT !.red = RedReset(st.red), !.last_update = t]

BlueReset(st, t) ==
  [st EXCEPT !.p_mark = 0, !.last_update = t, !.last_increase = t, !.last_decrease = t,
             !.last_loss_event = None]

CoDelReset(st) ==
  [st EXCEPT !.first_above_time = None, !.dropping = FALSE, !.count = 0, !.queue = <<>>]

PieReset(st, t) ==
  [st EXCEPT !.drop_prob = 0, !.qdelay_old = 0, !.burst_start = None, !.last_update = t]

FqCoDelReset(st) == [st EXCEPT !.flow_states = EmptyMap, !.flow_queues = EmptyMap]

\* Strategy::reset
Reset(st, t) ==
  CASE st.kind = "drop-tail" -> DropTailReset(st)
    [] st.kind = "fifo" -> FifoReset(st)
    [] st.kind = "red" -> RedReset(st)
    [] st.kind = "adaptive-red" -> AdaptiveRedReset(st, t)
    [] st.kind = "blue" -> BlueReset(st, t)
    [] st.kind = "codel" -> CoDelReset(st)
    [] st.kind = "pie" -> PieReset(st, t)
    [] st.kind = "fq-codel" -> FqCoDelReset(st)

\* ------------------------------------------------------------------- packet
\* The clock counts milliseconds from the instant Packet::sojourn_time takes
\* as the earliest creation time of an initialized packet (10^15 microseconds
\* after the Unix epoch).
CreatedAtFloor == 0

SojournTimeUncapped(packet, t) ==
  IF packet.created_at < CreatedAtFloor THEN 0 ELSE Max(t - packet.created_at, 0)

\* Packet::sojourn_time at instant t, in milliseconds: 0 for a packet created
\* before the floor, when the clock went backwards, or when more than 30 s
\* seem to have passed
SojournTime(packet, t) ==
  LET elapsed == Max(t - packet.created_at, 0)
  IN IF packet.created_at < CreatedAtFloor THEN 0
     ELSE IF elapsed > 30000 THEN 0 ELSE elapsed

\* -------------------------------------------------------------------- state
VARIABLES
  cfg,             \* SimConfig: strategy_name, buffer_size, num_servers, num_agents, duration
  now,             \* the clock, in milliseconds
  ticks,           \* steps the clock has made
  sim,             \* where Simulation::run is
  sim_i,           \* index of the running for loop of Simulation::run
  cancelled,       \* the cancellation token
  ready_count,     \* the atomic ready counter
  run_result,      \* what Simulation::run returned
  task,            \* per server: where the task of run_with_counter is
  buffer,          \* per server: the VecDeque of packets
  buffer_lock,     \* per server: TRUE while the buffer mutex is held
  strategy_lock,   \* per server: TRUE while the strategy mutex is held
  strategy,        \* per server: the strategy's state
  metrics,         \* MetricsInner
  agent,           \* per agent: where send_packet is
  packet_counter,  \* per agent: the atomic packet counter
  connections,     \* per agent and server: TRUE when a stream is cached
  sending,         \* per agent: the packet send_packet is delivering
  socket,          \* per agent and server: packets written and not yet read
  handler,         \* per agent and server: where handle_connection is, with its locals
  drainer,         \* per server: where process_queue is, with its locals
  log,             \* per server: what the engine did (accepted, delivered, calls)
  bench            \* the last call made on a strategy driven on its own, and what it saw

vars ==
  <<cfg, now, ticks, sim, sim_i, cancelled, ready_count, run_result, task, buffer,
    buffer_lock, strategy_lock, strategy, metrics, agent, packet_counter, connections,
    sending, socket, handler, drainer, log, bench>>

NoPacket == [id |-> None, source_agent |-> 0, destination_server |-> 0, created_at |-> 0]

MetricsNew ==
  [packets_sent |-> 0, packets_received |-> 0, packets_dropped |-> 0,
   total_latency_ms |-> 0, latency_samples |-> 0, queue_lengths |-> <<>>, snapshots |-> <<>>]

HandlerNew == [pc |-> "read", packet |-> NoPacket, action |-> "none", seen_len |-> 0]

DrainerNew ==
  [pc |-> "unspawned", packet |-> NoPacket, sojourn |-> 0, queue_len |-> 0, popped_len |-> 0,
   update_counter |-> 0, recent_sojourn_times |-> <<>>]

LogNew ==
  [accepted |-> <<>>, delivered |-> <<>>, dropped |-> <<>>, on_enqueue |-> 0, on_dequeue |-> 0,
   ready |-> 0, since_update |-> 0]

\* no call made yet: the operation, its result, the strategy before it, the
\* calls made, whether every head on_dequeue examined was below CoDel's
\* target, and the flow served last, now and before the last on_dequeue
BenchNew ==
  [op |-> "none", action |-> "none", before |-> <<>>, calls |-> 0, calm |-> TRUE,
   flow |-> None, prev_flow |-> None]

\* the servers and agents the configuration asks for
ActiveServers == 1..cfg.num_servers
ActiveAgents == 1..cfg.num_agents

\* the state every specification starts from, but for cfg, sim and the tasks
InitCommon ==
  /\ now = 0
  /\ ticks = 0
  /\ sim_i = 0
  /\ cancelled = FALSE
  /\ run_result = "none"
  /\ buffer = [s \in Servers |-> <<>>]
  /\ buffer_lock = [s \in Servers |-> FALSE]
  /\ strategy_lock = [s \in Servers |-> FALSE]
  /\ metrics = MetricsNew
  /\ packet_counter = [a \in Agents |-> 0]
  /\ connections = [a \in Agents |-> [s \in Servers |-> FALSE]]
  /\ sending = [a \in Agents |-> NoPacket]
  /\ socket = [a \in Agents |-> [s \in Servers |-> <<>>]]
  /\ handler = [a \in Agents |-> [s \in Servers |-> HandlerNew]]
  /\ log = [s \in Servers |-> LogNew]
  /\ bench = BenchNew

\* ------------------------------------------------------------------ metrics
PacketSentClobbering(m) ==
  [m EXCEPT !.packets_sent = m.packets_sent + 1, !.packets_dropped = 0]

PacketSent(m) == [m EXCEPT !.packets_sent = m.packets_sent + 1]

PacketReceivedTwice(m, latency_ms) ==
  [m EXCEPT !.packets_received = m.packets_received + 2]

PacketReceived(m, latency_ms) ==
  IF latency_ms > 30000
    THEN [m EXCEPT !.packets_received = m.packets_received + 1]
    ELSE [m EXCEPT !.packets_received = m.packets_received + 1,
                   !.total_latency_ms = m.total_latency_ms + latency_ms,
                   !.latency_samples = m.latency_samples + 1]

PacketDropped(m) == [m EXCEPT !.packets_dropped = m.packets_dropped + 1]

RecordQueueLength(m, len) == [m EXCEPT !.queue_lengths = Append(m.queue_lengths, len)]

\* packet_loss_rate of a snapshot, in millionths: dropped / sent, 0 when
\* nothing was sent
LossRate(m) ==
  IF m.packets_sent > 0 THEN (m.packets_dropped * PpmOne) \div m.packets_sent ELSE 0

\* avg_latency_ms of a snapshot: the mean of the samples, 0 without samples
\* or when the mean is above 10 s
AvgLatency(m) ==
  IF m.latency_samples > 0
    THEN LET avg == m.total_latency_ms \div m.latency_samples
         IN IF avg > 10000 THEN 0 ELSE avg
    ELSE 0

\* MetricsCollector::snapshot at instant t (milliseconds since start_time):
\* the counters, the derived rates and the last queue length
Snapshot(m, t) ==
  [timestamp |-> t, packets_sent |-> m.packets_sent, packets_received |-> m.packets_received,
   packets_dropped |-> m.packets_dropped,
   throughput_bps |-> IF t > 0 THEN (m.packets_received * 1500 * 8 * 1000) \div t ELSE 0,
   avg_latency_ms |-> AvgLatency(m),
   queue_length |-> IF m.queue_lengths = <<>> THEN 0 ELSE m.queue_lengths[Len(m.queue_lengths)],
   packet_loss_rate |-> LossRate(m)]

SaveSnapshotTwice(m, t) ==
  [m EXCEPT !.snapshots = Append(Append(m.snapshots, Snapshot(m, t)), Snapshot(m, t))]

SaveSnapshot(m, t) == [m EXCEPT !.snapshots = Append(m.snapshots, Snapshot(m, t))]

\* -------------------------------------------------------------------- clock
Tick(step, max) ==
  /\ ticks < max
  /\ now' = now + step
  /\ ticks' = ticks + 1
  /\ UNCHANGED <<bench, cfg, sim, sim_i, cancelled, ready_count, run_result, task, buffer,
                 buffer_lock, strategy_lock, strategy, metrics, agent, packet_counter,
                 connections, sending, socket, handler, drainer, log>>

\* -------------------------------------------------------------------- agent
\* what the harness, the servers and the engine keep when an agent steps
AgentFrame ==
  UNCHANGED <<bench, cfg, now, ticks, sim, sim_i, cancelled, ready_count, run_result, task, buffer,
              buffer_lock, strategy_lock, strategy, handler, drainer, log>>

\* the listener of server s is bound and its task runs
Listening(s) == task[s] \in {"bound", "ready", "accepting"}

\* the packets all agents have created so far
PacketsCreated == SeqSum([a \in 1..NumAgents |-> packet_counter[a]])

\* send_packet up to the first await of send_w_connection: the packet is
\* built and the cached stream, if any, is taken out of its slot
AgentSendStart(a, max_packets) ==
  /\ agent[a] = "idle"
  /\ PacketsCreated < max_packets
  /\ \E s \in ActiveServers :
       /\ sending' = [sending EXCEPT ![a] = Packet(packet_counter[a], a, s, now)]
       /\ agent' = [agent EXCEPT ![a] =
                      IF connections[a][s] THEN "write" ELSE "connect"]
       /\ connections' = [connections EXCEPT ![a][s] = FALSE]
  /\ packet_counter' = [packet_counter EXCEPT ![a] = packet_counter[a] + 1]
  /\ UNCHANGED <<metrics, socket>>
  /\ AgentFrame

\* TcpStream::connect succeeded
AgentConnect(a) ==
  /\ agent[a] = "connect"
  /\ Listening(sending[a].destination_server)
  /\ agent' = [agent EXCEPT ![a] = "write"]
  /\ UNCHANGED <<metrics, socket, sending, packet_counter, connections>>
  /\ AgentFrame

\* write_all succeeded: the bytes are on their way and the stream is cached
AgentWrite(a) ==
  /\ agent[a] = "write"
  /\ LET s == sending[a].destination_server
     IN /\ socket' = [socket EXCEPT ![a][s] = Append(socket[a][s], sending[a])]
        /\ connections' = [connections EXCEPT ![a][s] = TRUE]
  /\ agent' = [agent EXCEPT ![a] = "sent"]
  /\ UNCHANGED <<metrics, sending, packet_counter>>
  /\ AgentFrame

\* connect or write_all failed
AgentIoError(a) ==
  /\ agent[a] \in {"connect", "write"}
  /\ agent' = [agent EXCEPT ![a] = "failed"]
  /\ UNCHANGED <<metrics, socket, sending, packet_counter, connections>>
  /\ AgentFrame

\* the match of send_packet on Ok
AgentCountSent(a) ==
  /\ agent[a] = "sent"
  /\ metrics' = PacketSent(metrics)
  /\ agent' = [agent EXCEPT ![a] = "idle"]
  /\ UNCHANGED <<socket, sending, packet_counter, connections>>
  /\ AgentFrame

AgentCountDroppedAndSent(a) ==
  /\ agent[a] = "failed"
  /\ metrics' = PacketSent(PacketDropped(metrics))
  /\ connections' = [connections EXCEPT ![a][sending[a].destination_server] = FALSE]
  /\ agent' = [agent EXCEPT ![a] = "idle"]
  /\ UNCHANGED <<socket, sending, packet_counter>>
  /\ AgentFrame

\* the match of send_packet on Err
AgentCountDropped(a) ==
  /\ agent[a] = "failed"
  /\ metrics' = PacketDropped(metrics)
  /\ connections' = [connections EXCEPT ![a][sending[a].destination_server] = FALSE]
  /\ agent' = [agent EXCEPT ![a] = "idle"]
  /\ UNCHANGED <<socket, sending, packet_counter>>
  /\ AgentFrame

\* select! takes the cancelled branch while the agent is suspended at an await
AgentCancel(a) ==
  /\ cancelled
  /\ agent[a] \in {"idle", "connect", "write"}
  /\ agent' = [agent EXCEPT ![a] = "stopped"]
  /\ UNCHANGED <<metrics, socket, sending, packet_counter, connections>>
  /\ AgentFrame

\* send_packet of an agent that was given no server address: the packet id is
\* taken, gen_range(0..0) panics and the agent's task ends
AgentPanic(a, max_packets) ==
  /\ agent[a] = "idle"
  /\ PacketsCreated < max_packets
  /\ ActiveServers = {}
  /\ packet_counter' = [packet_counter EXCEPT ![a] = packet_counter[a] + 1]
  /\ agent' = [agent EXCEPT ![a] = "panicked"]
  /\ UNCHANGED <<metrics, socket, sending, connections>>
  /\ AgentFrame

\* ------------------------------------------------ server: handle_connection
EngineFrame ==
  UNCHANGED <<bench, cfg, now, ticks, sim, sim_i, cancelled, ready_count, run_result, task, agent,
              packet_counter, connections, sending>>

BufferLockIgnored(s) == TRUE

\* Mutex::lock of the buffer returns only while nobody holds it
BufferLockFree(s) == ~buffer_lock[s]

\* Mutex::lock of the strategy returns only while nobody holds it
StrategyLockFree(s) == ~strategy_lock[s]

PacketKey(packet) == <<packet.source_agent, packet.id>>

PushFront(q, packet) == <<packet>> \o q

\* VecDeque::push_back
PushNowhere(q, packet) == q

PushBack(q, packet) == Append(q, packet)

LenAfterInsertion(s) == Len(buffer[s]) + 1

\* the length enqueue_packet hands to on_enqueue: buffer.len() before the match
LenForOnEnqueue(s) == Len(buffer[s])

\* socket.read returned bytes that deserialize to a packet
HandlerRead(a, s) ==
  /\ handler[a][s].pc = "read"
  /\ socket[a][s] # <<>>
  /\ handler' = [handler EXCEPT ![a][s].pc = "lock_buffer", ![a][s].packet = Head(socket[a][s])]
  /\ socket' = [socket EXCEPT ![a][s] = Tail(socket[a][s])]
  /\ UNCHANGED <<buffer, buffer_lock, strategy_lock, strategy, metrics, drainer, log>>
  /\ EngineFrame

\* socket.read returned bytes that do not deserialize: they are ignored
HandlerReadGarbled(a, s) ==
  /\ handler[a][s].pc = "read"
  /\ socket[a][s] # <<>>
  /\ socket' = [socket EXCEPT ![a][s] = Tail(socket[a][s])]
  /\ UNCHANGED <<handler, buffer, buffer_lock, strategy_lock, strategy, metrics, drainer, log>>
  /\ EngineFrame

EnqueueLockStrategyFirst(a, s) ==
  /\ handler[a][s].pc = "lock_buffer"
  /\ StrategyLockFree(s)
  /\ strategy_lock' = [strategy_lock EXCEPT ![s] = TRUE]
  /\ handler' = [handler EXCEPT ![a][s].pc = "lock_strategy"]
  /\ UNCHANGED <<socket, buffer, buffer_lock, strategy, metrics, drainer, log>>
  /\ EngineFrame

\* enqueue_packet: self.buffer.lock()
EnqueueLockBuffer(a, s) ==
  /\ handler[a][s].pc = "lock_buffer"
  /\ BufferLockFree(s)
  /\ buffer_lock' = [buffer_lock EXCEPT ![s] = TRUE]
  /\ handler' = [handler EXCEPT ![a][s].pc = "lock_strategy"]
  /\ UNCHANGED <<socket, buffer, strategy_lock, strategy, metrics, drainer, log>>
  /\ EngineFrame

\* enqueue_packet: self.strategy.lock()
EnqueueLockStrategy(a, s) ==
  /\ handler[a][s].pc = "lock_strategy"
  /\ StrategyLockFree(s)
  /\ strategy_lock' = [strategy_lock EXCEPT ![s] = TRUE]
  /\ handler' = [handler EXCEPT ![a][s].pc = "on_enqueue"]
  /\ UNCHANGED <<socket, buffer, buffer_lock, strategy, metrics, drainer, log>>
  /\ EngineFrame

\* enqueue_packet: strategy.on_enqueue(&packet, buffer.len())
EnqueueDecide(a, s) ==
  /\ handler[a][s].pc = "on_enqueue"
  /\ \E r \in OnEnqueue(strategy[s], handler[a][s].packet, LenForOnEnqueue(s), now) :
       /\ strategy' = [strategy EXCEPT ![s] = r.st]
       /\ handler' = [handler EXCEPT ![a][s].pc = "match", ![a][s].action = r.action,
                                     ![a][s].seen_len = LenForOnEnqueue(s)]
  /\ log' = [log EXCEPT ![s].on_enqueue = log[s].on_enqueue + 1]
  /\ UNCHANGED <<socket, buffer, buffer_lock, strategy_lock, metrics, drainer>>
  /\ EngineFrame

\* enqueue_packet: the match on the action
EnqueueApply(a, s) ==
  /\ handler[a][s].pc = "match"
  /\ IF handler[a][s].action \in {"Accept", "Mark"}
       THEN /\ buffer' = [buffer EXCEPT ![s] = PushBack(buffer[s], handler[a][s].packet)]
            /\ log' = [log EXCEPT ![s].accepted =
                         Append(log[s].accepted, PacketKey(handler[a][s].packet))]
            /\ UNCHANGED metrics
       ELSE /\ metrics' = PacketDropped(metrics)
            /\ log' = [log EXCEPT ![s].dropped =
                         Append(log[s].dropped, PacketKey(handler[a][s].packet))]
            /\ UNCHANGED buffer
  /\ handler' = [handler EXCEPT ![a][s].pc = "record"]
  /\ UNCHANGED <<socket, buffer_lock, strategy_lock, strategy, drainer>>
  /\ EngineFrame

EnqueueRecordKeepsBuffer(a, s) ==
  /\ handler[a][s].pc = "record"
  /\ metrics' = RecordQueueLength(metrics, Len(buffer[s]))
  /\ strategy_lock' = [strategy_lock EXCEPT ![s] = FALSE]
  /\ handler' = [handler EXCEPT ![a][s] = HandlerNew]
  /\ UNCHANGED <<socket, buffer, buffer_lock, strategy, drainer, log>>
  /\ EngineFrame

\* enqueue_packet: record_queue_length(buffer.len()), then both guards drop
EnqueueRecord(a, s) ==
  /\ handler[a][s].pc = "record"
  /\ metrics' = RecordQueueLength(metrics, Len(buffer[s]))
  /\ buffer_lock' = [buffer_lock EXCEPT ![s] = FALSE]
  /\ strategy_lock' = [strategy_lock EXCEPT ![s] = FALSE]
  /\ handler' = [handler EXCEPT ![a][s] = HandlerNew]
  /\ UNCHANGED <<socket, buffer, strategy, drainer, log>>
  /\ EngineFrame

\* ---------------------------------------------------- server: process_queue
\* the sliding window of sojourn samples after one more sample
RecentPush(window, sample) ==
  LET w == Append(window, sample)
  IN IF Len(w) > SojournWindow THEN Tail(w) ELSE w

\* the mean of the window in microseconds, 0 when it is empty
AvgSojournUs(window) ==
  IF window = <<>> THEN 0 ELSE (SeqSum(window) * 1000) \div Len(window)

AfterIterationLate(d) ==
  IF d.update_counter + 1 > UpdateEvery
    THEN [d EXCEPT !.update_counter = 0, !.pc = "update_len"]
    ELSE [d EXCEPT !.update_counter = d.update_counter + 1, !.pc = "sleep"]

\* update_counter += 1 and the test that follows: the drainer's next place
AfterIteration(d) ==
  IF d.update_counter + 1 >= UpdateEvery
    THEN [d EXCEPT !.update_counter = 0, !.pc = "update_len"]
    ELSE [d EXCEPT !.update_counter = d.update_counter + 1, !.pc = "sleep"]

DrainFrame ==
  UNCHANGED <<bench, cfg, now, ticks, sim, sim_i, cancelled, ready_count, run_result, task, agent,
              packet_counter, connections, sending, socket, handler>>

\* after the sleep: buffer.lock().pop_front(), and the sojourn of the packet
DrainPop(s) ==
  /\ drainer[s].pc = "sleep"
  /\ BufferLockFree(s)
  /\ IF buffer[s] = <<>>
       THEN /\ drainer' = [drainer EXCEPT ![s] = AfterIteration(drainer[s])]
            /\ log' = [log EXCEPT ![s].since_update = log[s].since_update + 1]
            /\ UNCHANGED buffer
       ELSE /\ buffer' = [buffer EXCEPT ![s] = Tail(buffer[s])]
            /\ drainer' = [drainer EXCEPT ![s].pc = "received", ![s].packet = Head(buffer[s]),
                                          ![s].sojourn = SojournTime(Head(buffer[s]), now),
                                          ![s].popped_len = Len(buffer[s]) - 1]
            /\ log' = [log EXCEPT ![s].delivered =
                         Append(log[s].delivered, PacketKey(Head(buffer[s])))]
  /\ UNCHANGED <<buffer_lock, strategy_lock, strategy, metrics>>
  /\ DrainFrame

\* metrics.packet_received(sojourn) and the push to the window
DrainReceived(s) ==
  /\ drainer[s].pc = "received"
  /\ metrics' = PacketReceived(metrics, drainer[s].sojourn)
  /\ drainer' = [drainer EXCEPT ![s].pc = "read_len",
                   ![s].recent_sojourn_times =
                      RecentPush(drainer[s].recent_sojourn_times, drainer[s].sojourn)]
  /\ UNCHANGED <<buffer, buffer_lock, strategy_lock, strategy, log>>
  /\ DrainFrame

\* let queue_len = self.buffer.lock().len()
DrainReadLen(s) ==
  /\ drainer[s].pc = "read_len"
  /\ BufferLockFree(s)
  /\ drainer' = [drainer EXCEPT ![s].pc = "on_dequeue", ![s].queue_len = Len(buffer[s])]
  /\ UNCHANGED <<buffer, buffer_lock, strategy_lock, strategy, metrics, log>>
  /\ DrainFrame

\* strategy.lock(), strategy.on_dequeue(queue_len), drop(strategy)
DrainOnDequeue(s) ==
  /\ drainer[s].pc = "on_dequeue"
  /\ StrategyLockFree(s)
  /\ strategy' = [strategy EXCEPT ![s] = OnDequeue(strategy[s], drainer[s].queue_len, now)]
  /\ drainer' = [drainer EXCEPT ![s] = AfterIteration([drainer[s] EXCEPT !.packet = NoPacket])]
  /\ log' = [log EXCEPT ![s].on_dequeue = log[s].on_dequeue + 1,
                         ![s].since_update = log[s].since_update + 1]
  /\ UNCHANGED <<buffer, buffer_lock, strategy_lock, metrics>>
  /\ DrainFrame

\* every third iteration: let queue_len = self.buffer.lock().len()
DrainUpdateLen(s) ==
  /\ drainer[s].pc = "update_len"
  /\ BufferLockFree(s)
  /\ drainer' = [drainer EXCEPT ![s].pc = "update", ![s].queue_len = Len(buffer[s])]
  /\ UNCHANGED <<buffer, buffer_lock, strategy_lock, strategy, metrics, log>>
  /\ DrainFrame

\* strategy.lock(), strategy.update(queue_len, avg_sojourn)
DrainUpdate(s) ==
  /\ drainer[s].pc = "update"
  /\ StrategyLockFree(s)
  /\ strategy' = [strategy EXCEPT ![s] =
                    Update(strategy[s], drainer[s].queue_len,
                           AvgSojournUs(drainer[s].recent_sojourn_times), now)]
  /\ drainer' = [drainer EXCEPT ![s].pc = "sleep"]
  /\ log' = [log EXCEPT ![s].since_update = 0]
  /\ UNCHANGED <<buffer, buffer_lock, strategy_lock, metrics>>
  /\ DrainFrame

\* ------------------------------------------------- the server queue engine
\* One server whose listener is bound and whose drainer runs, the agents
\* launched: the state Simulation::run is in while its snapshot timer runs.
Init ==
  /\ InitCommon
  /\ cfg \in [strategy_name : StrategyNames, buffer_size : 1..MaxBuffer, num_servers : {1},
              num_agents : {NumAgents}, duration : {SimDuration}]
  /\ sim = "ticking"
  /\ ready_count = 1
  /\ task = [s \in Servers |-> IF s = 1 THEN "accepting" ELSE "unspawned"]
  /\ strategy = [s \in Servers |-> StrategyCreate(cfg.strategy_name, cfg.buffer_size, 0)]
  /\ agent = [a \in Agents |-> "idle"]
  /\ drainer = [s \in Servers |-> IF s = 1 THEN [DrainerNew EXCEPT !.pc = "sleep"] ELSE DrainerNew]

AgentStep(a, max_packets) ==
  \/ AgentSendStart(a, max_packets)
  \/ AgentConnect(a)
  \/ AgentWrite(a)
  \/ AgentIoError(a)
  \/ AgentCountSent(a)
  \/ AgentCountDropped(a)

HandlerStep(a, s) ==
  \/ HandlerRead(a, s)
  \/ HandlerReadGarbled(a, s)
  \/ EnqueueLockBuffer(a, s)
  \/ EnqueueLockStrategy(a, s)
  \/ EnqueueDecide(a, s)
  \/ EnqueueApply(a, s)
  \/ EnqueueRecord(a, s)

DrainStep(s) ==
  \/ DrainPop(s)
  \/ DrainReceived(s)
  \/ DrainReadLen(s)
  \/ DrainOnDequeue(s)
  \/ DrainUpdateLen(s)
  \/ DrainUpdate(s)

Next ==
  \/ Tick(TickMs, MaxTicks)
  \/ \E a \in ActiveAgents : AgentStep(a, MaxPackets)
  \/ \E a \in ActiveAgents, s \in ActiveServers : HandlerStep(a, s)
  \/ \E s \in ActiveServers : DrainStep(s)

Spec == Init /\ [][Next]_vars

\* ------------------------------------------- scenario: Drop-Tail overflow
\* A server with a buffer of ScenarioBuffer packets under Drop-Tail or FIFO
\* receives ScenarioPackets packets while its drainer sleeps.
InitScenario ==
  /\ InitCommon
  /\ cfg \in [strategy_name : {"drop-tail", "fifo"}, buffer_size : {ScenarioBuffer},
              num_servers : {1}, num_agents : {1}, duration : {SimDuration}]
  /\ sim = "ticking"
  /\ ready_count = 1
  /\ task = [s \in Servers |-> IF s = 1 THEN "accepting" ELSE "unspawned"]
  /\ strategy = [s \in Servers |-> StrategyCreate(cfg.strategy_name, cfg.buffer_size, 0)]
  /\ agent = [a \in Agents |-> "idle"]
  /\ drainer = [s \in Servers |-> IF s = 1 THEN [DrainerNew EXCEPT !.pc = "sleep"] ELSE DrainerNew]

NextScenario ==
  \/ \E a \in ActiveAgents : AgentStep(a, ScenarioPackets)
  \/ \E a \in ActiveAgents, s \in ActiveServers : HandlerStep(a, s)

SpecScenario == InitScenario /\ [][NextScenario]_vars

\* ------------------------------------------------- harness: Simulation::run
\* StrategyRegistry::create answers Some for a registered name only
Registered(name) == ToLowercase(name) \in RegistryKeys

\* the strategy slot of a server that has not been constructed
NoStrategy == [kind |-> "none"]

\* what the engine keeps when the harness or a server task steps
HarnessFrame ==
  UNCHANGED <<bench, cfg, ticks, buffer, buffer_lock, strategy_lock, packet_counter, connections,
              sending, socket, handler>>

\* one turn of the loop that starts the servers: the strategy is created,
\* the server built and its task spawned
HarnessSpawnServer ==
  /\ sim = "spawn_servers"
  /\ sim_i < cfg.num_servers
  /\ Registered(cfg.strategy_name)
  /\ strategy' = [strategy EXCEPT ![sim_i + 1] =
                    StrategyCreate(cfg.strategy_name, cfg.buffer_size, now)]
  /\ task' = [task EXCEPT ![sim_i + 1] = "spawned"]
  /\ sim_i' = sim_i + 1
  /\ UNCHANGED <<now, sim, cancelled, ready_count, run_result, metrics, agent, drainer, log>>
  /\ HarnessFrame

\* the loop over 0..num_servers is over
HarnessServersSpawned ==
  /\ sim = "spawn_servers"
  /\ sim_i = cfg.num_servers
  /\ sim' = "wait_ready"
  /\ UNCHANGED <<now, sim_i, cancelled, ready_count, run_result, task, strategy, metrics,
                 agent, drainer, log>>
  /\ HarnessFrame

\* the registry knows no such strategy: ok_or_else(..)? returns from run
HarnessUnknownStrategy ==
  /\ sim = "spawn_servers"
  /\ sim_i < cfg.num_servers
  /\ ~Registered(cfg.strategy_name)
  /\ sim' = "done"
  /\ run_result' = "err"
  /\ UNCHANGED <<now, sim_i, cancelled, ready_count, task, strategy, metrics, agent, drainer, log>>
  /\ HarnessFrame

AllServersReadyOrOne == ready_count >= 1

\* the test that ends the loop `while ready_count < num_servers`
AllServersReady == ready_count >= cfg.num_servers

\* the wait for readiness ends
HarnessWaitReady ==
  /\ sim = "wait_ready"
  /\ AllServersReady
  /\ sim' = "settle"
  /\ UNCHANGED <<now, sim_i, cancelled, ready_count, run_result, task, strategy, metrics,
                 agent, drainer, log>>
  /\ HarnessFrame

\* the settle delay after the wait
HarnessSettle ==
  /\ sim = "settle"
  /\ now' = now + SettleMs
  /\ sim' = "spawn_agents"
  /\ sim_i' = 0
  /\ UNCHANGED <<cancelled, ready_count, run_result, task, strategy, metrics, agent, drainer, log>>
  /\ HarnessFrame

\* one turn of the loop that starts the agents
HarnessSpawnAgent ==
  /\ sim = "spawn_agents"
  /\ sim_i < cfg.num_agents
  /\ agent' = [agent EXCEPT ![sim_i + 1] = "idle"]
  /\ sim_i' = IF sim_i + 1 = cfg.num_agents THEN 0 ELSE sim_i + 1
  /\ sim' = IF sim_i + 1 = cfg.num_agents THEN "ticking" ELSE sim
  /\ UNCHANGED <<now, cancelled, ready_count, run_result, task, strategy, metrics, drainer, log>>
  /\ HarnessFrame

\* one turn of the tick loop: the interval fires (at once the first time,
\* a second later afterwards) and a snapshot is saved
HarnessTick ==
  /\ sim = "ticking"
  /\ sim_i < cfg.duration
  /\ now' = now + (IF sim_i = 0 THEN 0 ELSE TickIntervalMs)
  /\ metrics' = SaveSnapshot(metrics, now')
  /\ sim_i' = sim_i + 1
  /\ UNCHANGED <<sim, cancelled, ready_count, run_result, task, strategy, agent, drainer, log>>
  /\ HarnessFrame

\* cancel_token.cancel() after the last tick
HarnessCancel ==
  /\ sim = "ticking"
  /\ sim_i = cfg.duration
  /\ cancelled' = TRUE
  /\ sim' = "join"
  /\ UNCHANGED <<now, sim_i, ready_count, run_result, task, strategy, metrics, agent, drainer, log>>
  /\ HarnessFrame

\* the joins of the agent and server handles: each returns when its task has
\* ended or when its two seconds are over, whichever comes first
HarnessJoin ==
  /\ sim = "join"
  /\ sim' = "release"
  /\ UNCHANGED <<now, sim_i, cancelled, ready_count, run_result, task, strategy, metrics,
                 agent, drainer, log>>
  /\ HarnessFrame

\* the last sleep and save_results()?: run returns Ok, or Err when a file
\* cannot be written
HarnessSaveResults ==
  /\ sim = "release"
  /\ sim' = "done"
  /\ \E r \in {"ok", "err"} : run_result' = r
  /\ UNCHANGED <<now, sim_i, cancelled, ready_count, task, strategy, metrics, agent, drainer, log>>
  /\ HarnessFrame

HarnessStep ==
  \/ HarnessSpawnServer
  \/ HarnessServersSpawned
  \/ HarnessUnknownStrategy
  \/ HarnessWaitReady
  \/ HarnessSettle
  \/ HarnessSpawnAgent
  \/ HarnessTick
  \/ HarnessCancel
  \/ HarnessJoin
  \/ HarnessSaveResults

\* ------------------------------------------- server: run_with_counter
ServerFrame ==
  UNCHANGED <<bench, now, sim, sim_i, cancelled, run_result, strategy, metrics, agent>>

\* TcpListener::bind succeeded
ServerBind(s) ==
  /\ task[s] = "spawned"
  /\ task' = [task EXCEPT ![s] = "bound"]
  /\ UNCHANGED <<ready_count, drainer, log>>
  /\ ServerFrame /\ HarnessFrame

\* TcpListener::bind failed: `?` returns the error, the task logs it and ends
ServerBindFail(s) ==
  /\ task[s] = "spawned"
  /\ task' = [task EXCEPT ![s] = "failed"]
  /\ UNCHANGED <<ready_count, drainer, log>>
  /\ ServerFrame /\ HarnessFrame

\* ready_counter.fetch_add(1)
ServerReady(s) ==
  /\ task[s] = "bound"
  /\ ready_count' = ready_count + 1
  /\ log' = [log EXCEPT ![s].ready = log[s].ready + 1]
  /\ task' = [task EXCEPT ![s] = "ready"]
  /\ UNCHANGED drainer
  /\ ServerFrame /\ HarnessFrame

\* tokio::spawn of process_queue, a task of its own; the server task goes on
\* to its accept loop
ServerSpawnDrainer(s) ==
  /\ task[s] = "ready"
  /\ drainer' = [drainer EXCEPT ![s].pc = "sleep"]
  /\ task' = [task EXCEPT ![s] = "accepting"]
  /\ UNCHANGED <<ready_count, log>>
  /\ ServerFrame /\ HarnessFrame

\* select! takes the cancelled branch while run_with_counter is suspended at
\* bind or accept: the future is dropped and the listener with it
ServerCancel(s) ==
  /\ cancelled
  /\ task[s] \in {"spawned", "accepting"}
  /\ task' = [task EXCEPT ![s] = "stopped"]
  /\ UNCHANGED <<ready_count, drainer, log>>
  /\ ServerFrame /\ HarnessFrame

ServerStep(s) ==
  \/ ServerBind(s)
  \/ ServerBindFail(s)
  \/ ServerReady(s)
  \/ ServerSpawnDrainer(s)
  \/ ServerCancel(s)

\* ------------------------------------------------ a whole run of the harness
SimStrategyNames == {"DROPTAIL", "Unregistered"}

InitSim ==
  /\ InitCommon
  /\ cfg \in [strategy_name : SimStrategyNames, buffer_size : {1},
              num_servers : {0, NumServers}, num_agents : {NumAgents}, duration : {SimDuration}]
  /\ sim = "spawn_servers"
  /\ ready_count = 0
  /\ task = [s \in Servers |-> "unspawned"]
  /\ strategy = [s \in Servers |-> NoStrategy]
  /\ agent = [a \in Agents |-> "unspawned"]
  /\ drainer = [s \in Servers |-> DrainerNew]

NextSim ==
  \/ HarnessStep
  \/ \E s \in ActiveServers : ServerStep(s)
  \/ \E a \in ActiveAgents :
       AgentStep(a, SimMaxPackets) \/ AgentPanic(a, SimMaxPackets) \/ AgentCancel(a)
  \/ \E a \in ActiveAgents, s \in ActiveServers : HandlerStep(a, s)
  \/ \E s \in ActiveServers : DrainStep(s)

SpecSim == InitSim /\ [][NextSim]_vars

\* the runtime polls every task that can run: the harness and each server task
FairSpecSim ==
  /\ SpecSim
  /\ WF_vars(HarnessStep)
  /\ \A s \in Servers : WF_vars(ServerStep(s))

\* ------------------------------------------- a strategy driven on its own
\* The Strategy trait is public: a caller may make its calls in any order,
\* with any arguments, at any instant. Here the strategy of server 1 is driven
\* that way, without the engine around it.
BenchMaxCalls == 3
BenchMaxTicks == 2
FairMaxCalls == 6
FairBuffer == 20

BenchSteps == {3, 100, 500}
BenchQueueLens == {0, 12, 50, 1000}
BenchSojournsUs == {0, 4000, 16000, 30000}
BenchBufferSizes == {1, 20}

BenchFrame ==
  UNCHANGED <<cfg, now, ticks, sim, sim_i, cancelled, ready_count, run_result, task, buffer,
              buffer_lock, strategy_lock, metrics, agent, packet_counter, connections,
              sending, socket, handler, drainer, log>>

\* the flows of an FQ-CoDel state that hold a packet
Backlogged(st) == {f \in DOMAIN st.flow_queues : st.flow_queues[f] # <<>>}

\* the flow on_dequeue took a packet from, None when it took none
ServedFlow(before, after) ==
  LET shrunk == {f \in Backlogged(before) :
                   FqFlowQueueLength(after, f) < FqFlowQueueLength(before, f)}
  IN IF shrunk = {} THEN None ELSE CHOOSE f \in shrunk : TRUE

BenchOnEnqueue(max_calls) ==
  /\ bench.calls < max_calls
  /\ \E queue_len \in BenchQueueLens, src \in Agents :
       \E r \in OnEnqueue(strategy[1], Packet(bench.calls, src, 1, now), queue_len, now) :
         /\ strategy' = [strategy EXCEPT ![1] = r.st]
         /\ bench' = [bench EXCEPT !.op = "on_enqueue", !.action = r.action,
                                   !.before = strategy[1], !.calls = bench.calls + 1]
  /\ BenchFrame

BenchOnDequeue(max_calls) ==
  /\ bench.calls < max_calls
  /\ \E queue_len \in BenchQueueLens :
       LET st == strategy[1]
           after == OnDequeue(st, queue_len, now)
           head_calm == IF st.kind = "codel" /\ st.queue # <<>>
                          THEN now - Head(st.queue).enqueue_time < CodelTargetMs
                          ELSE TRUE
       IN /\ strategy' = [strategy EXCEPT ![1] = after]
          /\ bench' = [bench EXCEPT !.op = "on_dequeue", !.action = "none", !.before = st,
                                    !.calls = bench.calls + 1,
                                    !.calm = bench.calm /\ head_calm,
                                    !.prev_flow = bench.flow,
                                    !.flow = IF st.kind = "fq-codel"
                                                  /\ ServedFlow(st, after) # None
                                               THEN ServedFlow(st, after) ELSE bench.flow]
  /\ BenchFrame

BenchUpdate(max_calls) ==
  /\ bench.calls < max_calls
  /\ \E queue_len \in BenchQueueLens, avg_sojourn_us \in BenchSojournsUs :
       /\ strategy' = [strategy EXCEPT ![1] = Update(strategy[1], queue_len, avg_sojourn_us, now)]
       /\ bench' = [bench EXCEPT !.op = "update", !.action = "none", !.before = strategy[1],
                                 !.calls = bench.calls + 1]
  /\ BenchFrame

BenchReset(max_calls) ==
  /\ bench.calls < max_calls
  /\ strategy' = [strategy EXCEPT ![1] = Reset(strategy[1], now)]
  /\ bench' = [bench EXCEPT !.op = "reset", !.action = "none", !.before = strategy[1],
                            !.calls = bench.calls + 1]
  /\ BenchFrame

BenchTick == \E step \in BenchSteps : Tick(step, BenchMaxTicks)

InitBench ==
  /\ InitCommon
  /\ cfg \in [strategy_name : StrategyNames, buffer_size : BenchBufferSizes, num_servers : {1},
              num_agents : {NumAgents}, duration : {SimDuration}]
  /\ sim = "ticking"
  /\ ready_count = 1
  /\ task = [s \in Servers |-> "unspawned"]
  /\ strategy = [s \in Servers |-> StrategyCreate(cfg.strategy_name, cfg.buffer_size, 0)]
  /\ agent = [a \in Agents |-> "idle"]
  /\ drainer = [s \in Servers |-> DrainerNew]

NextBench ==
  \/ BenchOnEnqueue(BenchMaxCalls)
  \/ BenchOnDequeue(BenchMaxCalls)
  \/ BenchUpdate(BenchMaxCalls)
  \/ BenchReset(BenchMaxCalls)
  \/ BenchTick

SpecBench == InitBench /\ [][NextBench]_vars

\* the strategies that keep queues of their own, FQ-CoDel and CoDel, with
\* packets of two flows going in and coming out
InitFair ==
  /\ InitCommon
  /\ cfg \in [strategy_name : {"fq-codel", "codel"}, buffer_size : {FairBuffer}, num_servers : {1},
              num_agents : {NumAgents}, duration : {SimDuration}]
  /\ sim = "ticking"
  /\ ready_count = 1
  /\ task = [s \in Servers |-> "unspawned"]
  /\ strategy = [s \in Servers |-> StrategyCreate(cfg.strategy_name, cfg.buffer_size, 0)]
  /\ agent = [a \in Agents |-> "idle"]
  /\ drainer = [s \in Servers |-> DrainerNew]

NextFair ==
  \/ BenchOnEnqueue(FairMaxCalls)
  \/ BenchOnDequeue(FairMaxCalls)
  \/ BenchTick

SpecFair == InitFair /\ [][NextFair]_vars

\* ------------------------------------------------ packets of any age drained
\* One drainer and packets whose created_at the sender wrote: before the
\* floor, in the past, now, or ahead of the server's clock.
PacketMaxArrivals == 2
PacketMaxTicks == 3

PacketCreatedAts == {0 - 10000, 0, 5000, 50000}
PacketSteps == {5000, 10000, 30000}

\* samples the window holds when the run starts: none, or one short of full
WindowFill == 99
PacketWindows == {<<>>, [i \in 1..WindowFill |-> 7]}

\* enqueue_packet of server s for a packet the sender stamped created_at
PacketArrive(s, created_at, max_arrivals) ==
  /\ packet_counter[1] < max_arrivals
  /\ BufferLockFree(s)
  /\ StrategyLockFree(s)
  /\ \E r \in OnEnqueue(strategy[s], Packet(packet_counter[1], 1, s, created_at),
                        LenForOnEnqueue(s), now) :
       LET pushed == IF r.action = "Drop" THEN buffer[s]
                     ELSE PushBack(buffer[s], Packet(packet_counter[1], 1, s, created_at))
       IN /\ strategy' = [strategy EXCEPT ![s] = r.st]
          /\ buffer' = [buffer EXCEPT ![s] = pushed]
          /\ metrics' = RecordQueueLength(IF r.action = "Drop" THEN PacketDropped(metrics)
                                          ELSE metrics, Len(pushed))
  /\ packet_counter' = [packet_counter EXCEPT ![1] = packet_counter[1] + 1]
  /\ UNCHANGED <<bench, cfg, now, ticks, sim, sim_i, cancelled, ready_count, run_result, task,
                 buffer_lock, strategy_lock, agent, connections, sending, socket, handler,
                 drainer, log>>

InitPacket ==
  /\ InitCommon
  /\ cfg \in [strategy_name : {"fifo", "pie"}, buffer_size : {PacketMaxArrivals},
              num_servers : {1}, num_agents : {1}, duration : {SimDuration}]
  /\ sim = "ticking"
  /\ ready_count = 1
  /\ task = [s \in Servers |-> IF s = 1 THEN "accepting" ELSE "unspawned"]
  /\ strategy = [s \in Servers |-> StrategyCreate(cfg.strategy_name, cfg.buffer_size, 0)]
  /\ agent = [a \in Agents |-> "idle"]
  /\ \E window \in PacketWindows :
       drainer = [s \in Servers |->
                    IF s = 1 THEN [DrainerNew EXCEPT !.pc = "sleep",
                                                     !.recent_sojourn_times = window]
                    ELSE DrainerNew]

NextPacket ==
  \/ \E created_at \in PacketCreatedAts : PacketArrive(1, created_at, PacketMaxArrivals)
  \/ DrainStep(1)
  \/ \E step \in PacketSteps : Tick(step, PacketMaxTicks)

SpecPacket == InitPacket /\ [][NextPacket]_vars

\* --------------------------------------------------- a server under CoDel
\* One server with CoDel, packets stamped when they arrive, and a clock that
\* lets them wait past CoDel's target and interval.
CoDelBuffer == 2
CoDelMaxArrivals == 5
CoDelMaxTicks == 2

InitCoDel ==
  /\ InitCommon
  /\ cfg \in [strategy_name : {"codel"}, buffer_size : {CoDelBuffer}, num_servers : {1},
              num_agents : {1}, duration : {SimDuration}]
  /\ sim = "ticking"
  /\ ready_count = 1
  /\ task = [s \in Servers |-> IF s = 1 THEN "accepting" ELSE "unspawned"]
  /\ strategy = [s \in Servers |-> StrategyCreate(cfg.strategy_name, cfg.buffer_size, 0)]
  /\ agent = [a \in Agents |-> "idle"]
  /\ drainer = [s \in Servers |-> IF s = 1 THEN [DrainerNew EXCEPT !.pc = "sleep"] ELSE DrainerNew]

NextCoDel ==
  \/ PacketArrive(1, now, CoDelMaxArrivals)
  \/ DrainStep(1)
  \/ Tick(TickMs, CoDelMaxTicks)

SpecCoDel == InitCoDel /\ [][NextCoDel]_vars

\* ----------------------------------------------------- a server under RED
\* One server with RED during a burst: packets arrive back to back while the
\* drainer sleeps between two iterations.
RedBuffer == 20
RedMaxArrivals == 37

InitRed ==
  /\ InitCommon
  /\ cfg \in [strategy_name : {"red"}, buffer_size : {RedBuffer}, num_servers : {1},
              num_agents : {1}, duration : {SimDuration}]
  /\ sim = "ticking"
  /\ ready_count = 1
  /\ task = [s \in Servers |-> IF s = 1 THEN "accepting" ELSE "unspawned"]
  /\ strategy = [s \in Servers |-> StrategyCreate(cfg.strategy_name, cfg.buffer_size, 0)]
  /\ agent = [a \in Agents |-> "idle"]
  /\ drainer = [s \in Servers |-> IF s = 1 THEN [DrainerNew EXCEPT !.pc = "sleep"] ELSE DrainerNew]

NextRed == PacketArrive(1, now, RedMaxArrivals)

SpecRed == InitRed /\ [][NextRed]_vars

\* ------------------------------------------------------------ BLUE alone
\* BLUE driven through the trait for long enough to take p_mark from one end
\* of its range to the other.
BlueMaxCalls == 26

InitBlue ==
  /\ InitCommon
  /\ cfg \in [strategy_name : {"blue"}, buffer_size : {FairBuffer}, num_servers : {1},
              num_agents : {NumAgents}, duration : {SimDuration}]
  /\ sim = "ticking"
  /\ ready_count = 1
  /\ task = [s \in Servers |-> "unspawned"]
  /\ strategy = [s \in Servers |-> StrategyCreate(cfg.strategy_name, cfg.buffer_size, 0)]
  /\ agent = [a \in Agents |-> "idle"]
  /\ drainer = [s \in Servers |-> DrainerNew]

NextBlue ==
  \/ BenchOnEnqueue(BlueMaxCalls)
  \/ BenchOnDequeue(BlueMaxCalls)
  \/ BenchUpdate(BlueMaxCalls)
  \/ BenchTick

SpecBlue == InitBlue /\ [][NextBlue]_vars

\* ------------------------------------------- the engine, drainer running
\* The engine with room for one packet, so that one of two packets sent
\* together is refused, a drainer that keeps running and handlers that run
\* enqueue_packet, a synchronous fn, to its end.
InitDelivery ==
  /\ InitCommon
  /\ cfg \in [strategy_name : {"drop-tail", "codel"}, buffer_size : {1}, num_servers : {1},
              num_agents : {NumAgents}, duration : {SimDuration}]
  /\ sim = "ticking"
  /\ ready_count = 1
  /\ task = [s \in Servers |-> IF s = 1 THEN "accepting" ELSE "unspawned"]
  /\ strategy = [s \in Servers |-> StrategyCreate(cfg.strategy_name, cfg.buffer_size, 0)]
  /\ agent = [a \in Agents |-> "idle"]
  /\ drainer = [s \in Servers |-> IF s = 1 THEN [DrainerNew EXCEPT !.pc = "sleep"] ELSE DrainerNew]

FairSpecDelivery ==
  /\ InitDelivery
  /\ [][Next]_vars
  /\ WF_vars(DrainStep(1))
  /\ \A a \in Agents : WF_vars(HandlerStep(a, 1))

\* ------------------------------------------------------------------- claims
\* does sequence p start sequence q
IsPrefix(p, q) == Len(p) <= Len(q) /\ p = SubSeq(q, 1, Len(p))

RECURSIVE KeysOf(_)
KeysOf(q) == IF q = <<>> THEN <<>> ELSE <<PacketKey(Head(q))>> \o KeysOf(Tail(q))

RECURSIVE OfFlow(_, _)
OfFlow(keys, src) ==
  IF keys = <<>> THEN <<>>
  ELSE IF Head(keys)[1] = src THEN <<Head(keys)>> \o OfFlow(Tail(keys), src)
  ELSE OfFlow(Tail(keys), src)

\* C1: for every registered strategy the number of packets in a server's
\* buffer never exceeds the configured buffer_size.
C1_BufferWithinBufferSize ==
  \A s \in ActiveServers : Len(buffer[s]) <= cfg.buffer_size

\* C2: at every time packets_received + packets_dropped <= packets_sent in
\* the shared metrics collector.
C2_ReceivedPlusDroppedAtMostSent ==
  metrics.packets_received + metrics.packets_dropped <= metrics.packets_sent

\* C3: the drainer removes packets in exactly the order enqueue_packet
\* inserted them: what was delivered, followed by what the buffer holds, is
\* what was accepted, in the order of acceptance (every strategy but
\* FQ-CoDel); under FQ-CoDel the packets of one flow are delivered in their
\* arrival order.
C3_DeliveredInInsertionOrder ==
  \A s \in ActiveServers :
    IF cfg.strategy_name # "fq-codel"
      THEN log[s].delivered \o KeysOf(buffer[s]) = log[s].accepted
      ELSE \A a \in Agents :
             IsPrefix(OfFlow(log[s].delivered, a), OfFlow(log[s].accepted, a))

C3_Witness ==
  \E s \in ActiveServers :
    /\ Len(log[s].delivered) = 2
    /\ log[s].delivered[1][1] # log[s].delivered[2][1]

\* the handlers of server s that are at place pc of enqueue_packet
HandlersAt(s, pc) == {a \in Agents : handler[a][s].pc = pc}

\* C4: under Drop-Tail and FIFO enqueue_packet drops the arriving packet if
\* and only if the buffer holds at least buffer_size packets at that enqueue;
\* with a buffer of 4 and 10 enqueues without a dequeue the first 4 packets
\* are accepted, the next 6 are dropped and packets_dropped = 6
\* (ScenarioBuffer = 4, ScenarioPackets = 10).
C4_DropTailDropsIffFull ==
  \A s \in ActiveServers :
    /\ \A a \in HandlersAt(s, "match") :
         (handler[a][s].action = "Drop") <=> (Len(buffer[s]) >= cfg.buffer_size)
    /\ Len(log[s].dropped) > 0 => Len(log[s].accepted) = ScenarioBuffer
    /\ Len(log[s].accepted) <= ScenarioBuffer
    /\ Len(log[s].accepted) + Len(log[s].dropped) = ScenarioPackets
         => /\ Len(log[s].accepted) = ScenarioBuffer
            /\ Len(log[s].dropped) = ScenarioPackets - ScenarioBuffer
            /\ metrics.packets_dropped = ScenarioPackets - ScenarioBuffer

C4_Witness ==
  \E s \in ActiveServers :
    /\ Len(log[s].accepted) = ScenarioBuffer
    /\ Len(log[s].dropped) = ScenarioPackets - ScenarioBuffer
    /\ metrics.packets_dropped = ScenarioPackets - ScenarioBuffer
    /\ Len(buffer[s]) = ScenarioBuffer

\* C5: enqueue_packet calls on_enqueue exactly once per arriving packet,
\* before the insertion and with the buffer's length before it; on Drop the
\* buffer is unchanged and packets_dropped grows by one, on Accept or Mark
\* the packet is appended at the tail and packets_dropped is unchanged; the
\* buffer's length after the decision is what the metrics record.
C5_EnqueueContract ==
  [][\A s \in ActiveServers, a \in Agents :
       /\ (handler[a][s].pc = "on_enqueue" /\ handler'[a][s].pc = "match")
            => /\ handler'[a][s].seen_len = Len(buffer[s])
               /\ buffer' = buffer
               /\ log'[s].on_enqueue = log[s].on_enqueue + 1
       /\ log'[s].on_enqueue # log[s].on_enqueue
            => \E b \in Agents : handler[b][s].pc = "on_enqueue" /\ handler'[b][s].pc = "match"
       /\ (handler[a][s].pc = "match" /\ handler'[a][s].pc = "record")
            => IF handler[a][s].action = "Drop"
                 THEN /\ buffer' = buffer
                      /\ metrics'.packets_dropped = metrics.packets_dropped + 1
                 ELSE /\ buffer'[s] = Append(buffer[s], handler[a][s].packet)
                      /\ metrics'.packets_dropped = metrics.packets_dropped
       /\ (handler[a][s].pc = "record" /\ handler'[a][s].pc = "read")
            => /\ metrics'.queue_lengths = Append(metrics.queue_lengths, Len(buffer[s]))
               /\ buffer' = buffer
               /\ Len(buffer[s]) = handler[a][s].seen_len
                                     + (IF handler[a][s].action = "Drop" THEN 0 ELSE 1)
    ]_vars

C5_Witness ==
  \E s \in ActiveServers :
    /\ log[s].on_enqueue = 2
    /\ Len(log[s].dropped) = 1
    /\ Len(log[s].accepted) = 1
    /\ Len(metrics.queue_lengths) = 2

\* C6: the decision and the insertion are atomic on each server: from the
\* moment on_enqueue has read the length to the moment the packet is
\* inserted or discarded no other producer and no drainer pop touches the
\* buffer, so the length on_enqueue saw is the buffer's length at insertion.
C6_DecisionAndInsertionAtomic ==
  \A s \in ActiveServers :
    /\ Cardinality(HandlersAt(s, "lock_strategy") \cup HandlersAt(s, "on_enqueue")
                   \cup HandlersAt(s, "match") \cup HandlersAt(s, "record")) <= 1
    /\ \A a \in HandlersAt(s, "match") : handler[a][s].seen_len = Len(buffer[s])
    /\ \A a \in HandlersAt(s, "record") :
         Len(buffer[s]) = handler[a][s].seen_len
                            + (IF handler[a][s].action = "Drop" THEN 0 ELSE 1)

C6_Witness ==
  \E s \in ActiveServers, a, b \in Agents :
    /\ handler[a][s].pc = "match"
    /\ handler[b][s].pc = "lock_buffer"
    /\ buffer_lock[s]
    /\ drainer[s].pc = "sleep"

\* C7: the queue length the drainer passes to on_dequeue equals the buffer's
\* length immediately after the removal, also when producers enqueue on the
\* same server concurrently.
C7_OnDequeueSeesPostRemovalLength ==
  \A s \in ActiveServers :
    drainer[s].pc = "on_dequeue" => drainer[s].queue_len = drainer[s].popped_len

\* C8: no agent task is started before the ready counter equals num_servers;
\* each server increments the ready counter exactly once and only after its
\* endpoint has been bound, so an agent starts only after every server of the
\* run has bound its endpoint.
C8_AgentsStartAfterAllServersReady ==
  /\ (\E a \in Agents : agent[a] # "unspawned")
       => /\ ready_count = cfg.num_servers
          /\ \A s \in ActiveServers : task[s] \in {"ready", "accepting", "stopped"}
  /\ \A s \in Servers :
       /\ log[s].ready <= 1
       /\ log[s].ready = 1 <=> task[s] \in {"ready", "accepting", "stopped"}
  /\ ready_count = SeqSum([s \in 1..NumServers |-> log[s].ready])

C8_Witness ==
  \E a, b \in ActiveAgents :
    /\ agent[a] = "idle"
    /\ agent[b] = "unspawned"
    /\ ready_count = cfg.num_servers
    /\ \A s \in ActiveServers : Listening(s)

\* C9: Simulation.run terminates for every configuration, also when a server
\* task ends with an error because it cannot bind its endpoint.
C9_RunTerminates == <>(sim = "done")

\* a step in which no drainer pops, calls on_dequeue or counts a reception
DrainersQuiet ==
  /\ \A s \in Servers : /\ log'[s].delivered = log[s].delivered
                        /\ log'[s].on_dequeue = log[s].on_dequeue
  /\ metrics'.packets_received = metrics.packets_received

\* C10: once the harness has cancelled the token and joined the tasks, no
\* drainer pops a packet, calls a strategy or changes the metrics any more.
C10_NoDrainAfterShutdown ==
  [][(sim \in {"release", "done"}) => DrainersQuiet]_vars

\* C11: the harness saves exactly one snapshot per tick, duration snapshots
\* in total, all of them after the agents were launched and before the token
\* is cancelled; in the saved series the timestamps are strictly increasing
\* and the cumulative counters are non-decreasing.
C11_OneSnapshotPerTick ==
  LET snaps == metrics.snapshots
  IN /\ Len(snaps) = (CASE sim = "ticking" -> sim_i
                        [] sim \in {"join", "release"} -> cfg.duration
                        [] sim = "done" /\ run_result # "none" /\ cancelled -> cfg.duration
                        [] OTHER -> 0)
     /\ snaps # <<>> => \A a \in ActiveAgents : agent[a] # "unspawned"
     /\ cancelled => Len(snaps) = cfg.duration
     /\ \A i \in 1..(Len(snaps) - 1) :
          /\ snaps[i].timestamp < snaps[i + 1].timestamp
          /\ snaps[i].packets_sent <= snaps[i + 1].packets_sent
          /\ snaps[i].packets_received <= snaps[i + 1].packets_received
          /\ snaps[i].packets_dropped <= snaps[i + 1].packets_dropped

C11_Witness ==
  /\ sim = "done"
  /\ Len(metrics.snapshots) = cfg.duration
  /\ cfg.duration >= 2
  /\ metrics.snapshots[1].packets_sent < metrics.snapshots[2].packets_sent

\* C12: every snapshot has packet_loss_rate in [0, 1], and 0 when
\* packets_sent = 0, after any sequence of successful sends, failed sends,
\* drops at enqueue and receipts: the snapshot the harness would take in the
\* current state, and every snapshot it has saved.
C12_LossRateWithinUnit ==
  LET taken == Snapshot(metrics, now)
  IN /\ taken.packet_loss_rate >= 0
     /\ taken.packet_loss_rate <= PpmOne
     /\ taken.packets_sent = 0 => taken.packet_loss_rate = 0
     /\ \A i \in 1..Len(metrics.snapshots) :
          /\ metrics.snapshots[i].packet_loss_rate >= 0
          /\ metrics.snapshots[i].packet_loss_rate <= PpmOne

\* the three counters of the collector
Counters(m) == <<m.packets_sent, m.packets_received, m.packets_dropped>>

\* a step that leaves the counters alone or adds exactly one to exactly one
CountersStep ==
  LET d == [i \in 1..3 |-> Counters(metrics')[i] - Counters(metrics)[i]]
  IN /\ \A i \in 1..3 : d[i] \in {0, 1}
     /\ d[1] + d[2] + d[3] <= 1

\* the send_packet calls that have returned
SendsReturned ==
  SeqSum([a \in 1..NumAgents |-> packet_counter[a]])
    - Cardinality({a \in Agents : agent[a] \in {"connect", "write", "sent", "failed"}})

\* C13: the counters packets_sent, packets_received and packets_dropped never
\* decrease; each call of packet_sent, packet_received or packet_dropped adds
\* exactly one to its own counter and leaves the other two unchanged, and no
\* increment is lost when agents and servers call them concurrently: the
\* counters always equal the numbers of calls made.
C13_CountersCountEveryCall ==
  /\ [][CountersStep]_vars
  /\ [](/\ metrics.packets_sent + metrics.packets_dropped
             = SendsReturned + SeqSum([s \in 1..NumServers |-> Len(log[s].dropped)])
        /\ metrics.packets_received
             = SeqSum([s \in 1..NumServers |-> Len(log[s].delivered)])
                 - Cardinality({s \in Servers : drainer[s].pc = "received"}))

C13_Witness ==
  /\ metrics.packets_sent = 1
  /\ metrics.packets_received = 1
  /\ metrics.packets_dropped = 1

\* what one step may do to agent a's send_packet call
SendPacketStep(a) ==
  LET s == sending[a].destination_server
  IN /\ (agent[a] = "sent" /\ agent'[a] = "idle")
          => /\ metrics'.packets_sent = metrics.packets_sent + 1
             /\ metrics'.packets_dropped = metrics.packets_dropped
             /\ connections'[a][s]
     /\ (agent[a] = "failed" /\ agent'[a] = "idle")
          => /\ metrics'.packets_dropped = metrics.packets_dropped + 1
             /\ metrics'.packets_sent = metrics.packets_sent
             /\ ~connections'[a][s]
     /\ (agent'[a] # agent[a] /\ agent'[a] # "idle")
          => Counters(metrics') = Counters(metrics)
     /\ agent[a] = "failed" => agent'[a] \in {"failed", "idle"}
     /\ agent[a] = "sent" => agent'[a] \in {"sent", "idle"}
     /\ packet_counter'[a] = packet_counter[a] + (IF agent[a] = "idle" /\ agent'[a] # "idle" THEN 1 ELSE 0)

\* C14: each send_packet call is one-shot and changes exactly one counter:
\* packets_sent by one when the delivery succeeds, packets_dropped by one when
\* it fails, never both and never more than once; after a failed delivery to
\* server s the agent's slot for s is empty, after a successful one it holds
\* the connection that was used.
C14_SendPacketOneShot ==
  /\ [][\A a \in Agents : SendPacketStep(a)]_vars
  /\ [](\A a \in Agents :
          /\ agent[a] \in {"connect", "write", "failed"}
               => ~connections[a][sending[a].destination_server]
          /\ agent[a] = "sent" => connections[a][sending[a].destination_server])

C14_Witness ==
  \E a \in ActiveAgents, s \in ActiveServers :
    /\ agent[a] = "idle"
    /\ packet_counter[a] = 2
    /\ connections[a][s]
    /\ metrics.packets_sent = 1
    /\ metrics.packets_dropped = 1
    /\ log[s].dropped = <<>>

\* C15: if the configured strategy name is not registered (after
\* lower-casing), run fails with an error before any server or agent task is
\* spawned and without saving a snapshot or changing a counter.
C15_UnknownStrategyFailsFast ==
  ~Registered(cfg.strategy_name)
    => /\ \A s \in Servers : task[s] = "unspawned"
       /\ \A a \in Agents : agent[a] = "unspawned"
       /\ metrics = MetricsNew
       /\ sim \in {"spawn_servers", "done"}
       /\ sim = "done" => run_result = "err"

\* the state variables of a strategy that influence its later decisions
DecisionState(st) ==
  CASE st.kind = "red" -> <<st.avg_queue, st.count>>
    [] st.kind = "adaptive-red" -> <<st.red.avg_queue, st.red.count, st.red.max_p>>
    [] st.kind = "blue" -> <<st.p_mark, st.last_loss_event>>
    [] st.kind = "codel" -> <<st.first_above_time, st.count, st.dropping, st.queue>>
    [] st.kind = "pie" -> <<st.drop_prob, st.qdelay_old, st.burst_start>>
    [] st.kind = "fq-codel" -> <<st.flow_states, st.flow_queues>>
    [] OTHER -> <<>>

\* C16: after any sequence of on_enqueue, on_dequeue and update calls, reset()
\* leaves every state variable that influences later decisions at the value
\* the constructor gives it.
C16_ResetRestoresConstructorState ==
  bench.op = "reset" =>
    DecisionState(strategy[1]) =
      DecisionState(StrategyCreate(cfg.strategy_name, cfg.buffer_size, now))

\* C17: under CoDel, as long as every head on_dequeue examined waited less
\* than the target, count is 0, dropping is false, first_above_time is unset,
\* and an on_dequeue that found a packet removed exactly that one packet.
C17_CoDelIdleBelowTarget ==
  (strategy[1].kind = "codel" /\ bench.calm) =>
    /\ strategy[1].count = 0
    /\ ~strategy[1].dropping
    /\ strategy[1].first_above_time = None
    /\ (bench.op = "on_dequeue" /\ bench.before.queue # <<>>) =>
         strategy[1].queue = Tail(bench.before.queue)

\* a head that waited 3 ms was taken from a queue of two
C17_Witness ==
  /\ strategy[1].kind = "codel"
  /\ bench.calm
  /\ bench.op = "on_dequeue"
  /\ Len(bench.before.queue) = 2
  /\ now - Head(bench.before.queue).enqueue_time = 3

\* C18: an on_enqueue of RED accepts when avg_queue, after the EWMA step of
\* that call, is below min_th and drops when it is at or above max_th; a drop
\* leaves count at 0 and an accept raises count by one.
C18_RedThresholds ==
  (strategy[1].kind = "red" /\ bench.op = "on_enqueue") =>
    /\ strategy[1].avg_queue < strategy[1].min_th => bench.action = "Accept"
    /\ strategy[1].avg_queue >= strategy[1].max_th => bench.action = "Drop"
    /\ bench.action = "Drop" => strategy[1].count = 0
    /\ bench.action = "Accept" => strategy[1].count = bench.before.count + 1

\* C19: an update of PIE that is applied (the update interval has elapsed)
\* does not lower drop_prob when its qdelay is above the target delay, does
\* not raise it when its qdelay is below the target delay, whatever qdelay_old
\* was, and leaves drop_prob within [0, 1]. The qdelay of an applied update is
\* the one it stores as qdelay_old.
C19_PieDropProbFollowsDelay ==
  (strategy[1].kind = "pie" /\ bench.op = "update"
     /\ now - bench.before.last_update >= PieUpdateMs) =>
    /\ strategy[1].qdelay_old > PieTargetUs => strategy[1].drop_prob >= bench.before.drop_prob
    /\ strategy[1].qdelay_old < PieTargetUs => strategy[1].drop_prob <= bench.before.drop_prob
    /\ strategy[1].drop_prob \in 0..PpmOne

\* the first flow of busy after prev in cyclic order of the flow ids
NextFlowAfter(prev, busy) ==
  LET later == {f \in busy : f > prev}
      from == IF later = {} THEN busy ELSE later
  IN CHOOSE f \in from : \A g \in from : f <= g

\* C20: an on_dequeue of FQ-CoDel that finds a backlogged flow removes exactly
\* one packet, from the first backlogged flow after the flow served before it,
\* in cyclic order of the sorted flow ids.
C20_FqCoDelRoundRobin ==
  (strategy[1].kind = "fq-codel" /\ bench.op = "on_dequeue"
     /\ Backlogged(bench.before) # {}) =>
    /\ FqTotalQueueLength(strategy[1]) = FqTotalQueueLength(bench.before) - 1
    /\ ServedFlow(bench.before, strategy[1])
         = NextFlowAfter(bench.prev_flow, Backlogged(bench.before))

\* C21: PIE accepts every packet that arrives less than the burst allowance
\* (150 ms) after burst_start, whatever drop_prob and queue_len are; the packet
\* that opens the window at a short queue is the first of these, so a burst
\* arriving at a quiescent queue loses no packet.
C21_PieBurstAccepted ==
  (strategy[1].kind = "pie" /\ bench.op = "on_enqueue"
     /\ strategy[1].burst_start # None /\ now - strategy[1].burst_start < PieBurstMs) =>
    bench.action = "Accept"

\* the step in which the drainer of server 1 pops a packet and asks for its
\* sojourn time, at instant now
SojournTaken == drainer[1].pc = "sleep" /\ drainer'[1].pc = "received"

SojournAsStated ==
  SojournTaken =>
    LET packet == drainer'[1].packet
        elapsed == now - packet.created_at
        sojourn == drainer'[1].sojourn
    IN /\ elapsed \in 0..30000 => sojourn = elapsed
       /\ (elapsed < 0 \/ elapsed > 30000) => sojourn = 0
       /\ sojourn <= 30000
       /\ packet.created_at = Head(buffer[1]).created_at

SojournWithFloor ==
  SojournTaken =>
    LET packet == drainer'[1].packet
        elapsed == now - packet.created_at
        sojourn == drainer'[1].sojourn
    IN /\ (elapsed \in 0..30000 /\ packet.created_at >= CreatedAtFloor) => sojourn = elapsed
       /\ (elapsed < 0 \/ elapsed > 30000 \/ packet.created_at < CreatedAtFloor) => sojourn = 0
       /\ sojourn <= 30000
       /\ packet.created_at = Head(buffer[1]).created_at

\* C22: sojourn_time returns now - created_at when that difference lies in
\* [0, 30 s], and zero when now is earlier than created_at or the difference
\* exceeds 30 s; it is never above 30 s and leaves created_at as it was.
C22_SojournTimeClamped == [][SojournAsStated]_vars

\* C22, amended: the same, for a packet created at or after the floor of
\* 10^15 microseconds after the Unix epoch; a packet created before the floor
\* has sojourn time zero.
C22_SojournTimeClampedFromFloor == [][SojournWithFloor]_vars

\* a packet created at 5 s was popped exactly 30 s later
C22_Witness ==
  /\ drainer[1].pc = "received"
  /\ drainer[1].packet.created_at = 5000
  /\ drainer[1].sojourn = 30000

\* what a step of the drainer of server 1 may do to the buffer and the counts
DrainIterationStep ==
  /\ Len(buffer'[1]) < Len(buffer[1]) =>
       /\ drainer[1].pc = "sleep"
       /\ buffer'[1] = Tail(buffer[1])
       /\ drainer'[1].packet = Head(buffer[1])
  /\ (drainer[1].pc = "sleep" /\ drainer'[1] # drainer[1] /\ buffer[1] = <<>>) =>
       /\ buffer'[1] = buffer[1]
       /\ metrics'.packets_received = metrics.packets_received
       /\ log'[1].on_dequeue = log[1].on_dequeue
       /\ drainer'[1].pc \in {"sleep", "update_len"}

\* the packets popped so far, each counted as received once and each given to
\* on_dequeue once, but for the one the running iteration still holds
DrainIterationCounts ==
  /\ metrics.packets_received =
       Len(log[1].delivered) - (IF drainer[1].pc = "received" THEN 1 ELSE 0)
  /\ log[1].on_dequeue =
       Len(log[1].delivered)
         - (IF drainer[1].pc \in {"received", "read_len", "on_dequeue"} THEN 1 ELSE 0)

\* C23: a drainer iteration removes at most one packet, the head of the
\* buffer; every removed packet is counted in packets_received once and given
\* to on_dequeue once; an iteration that finds the buffer empty changes
\* neither the buffer nor packets_received and does not call on_dequeue.
C23_DrainerOnePacketPerIteration == [][DrainIterationStep]_vars /\ [](DrainIterationCounts)

\* two packets were drained, and a later iteration found the buffer empty
C23_Witness ==
  /\ metrics.packets_received = 2
  /\ log[1].on_dequeue = 2
  /\ buffer[1] = <<>>
  /\ drainer[1].pc = "sleep"
  /\ drainer[1].update_counter > 0

\* the last n elements of a sequence
LastN(q, n) == IF Len(q) <= n THEN q ELSE SubSeq(q, Len(q) - n + 1, Len(q))

\* what a step of the drainer of server 1 may do to the cadence of update and
\* to the window of samples
DrainCadenceStep ==
  /\ (drainer[1].pc = "update" /\ drainer'[1].pc # "update") =>
       /\ log[1].since_update = 3
       /\ drainer'[1].pc = "sleep"
       /\ strategy'[1] = Update(strategy[1], drainer[1].queue_len,
                                AvgSojournUs(LastN(drainer[1].recent_sojourn_times, 100)), now)
  /\ (drainer[1].pc = "update_len" /\ drainer'[1].pc # "update_len") =>
       /\ drainer'[1].pc = "update"
       /\ drainer'[1].queue_len = Len(buffer[1])
  /\ log'[1].since_update = log[1].since_update + 1 =>
       drainer'[1].pc = IF log'[1].since_update = 3 THEN "update_len" ELSE "sleep"
  /\ (drainer[1].pc = "received" /\ drainer'[1].pc # "received") =>
       drainer'[1].recent_sojourn_times =
         LastN(Append(drainer[1].recent_sojourn_times, drainer[1].sojourn), 100)
  /\ drainer[1].pc # "received" =>
       drainer'[1].recent_sojourn_times = drainer[1].recent_sojourn_times

\* the window is bounded and update is due exactly after the third iteration
DrainCadenceState ==
  /\ Len(drainer[1].recent_sojourn_times) <= 100
  /\ log[1].since_update \in 0..3
  /\ log[1].since_update = 3 <=> drainer[1].pc \in {"update_len", "update"}

DropsOfCall == Len(strategy[1].dropped) - Len(bench.before.dropped)

\* the head met the conditions of a drop when the call began
DropDue(st, t) ==
  /\ t - Head(st.queue).enqueue_time >= CodelTargetMs
  /\ st.first_above_time # None
  /\ t - st.first_above_time >= CodelIntervalMs
  /\ st.dropping => t >= st.drop_next

\* C25: CoDel's on_dequeue drops a head only when its sojourn is at least the
\* target, first_above_time is set, at least the interval has passed since
\* first_above_time and, in dropping state, now >= drop_next; otherwise the
\* call dequeues the head alone and returns. Every dropped packet waited at
\* least the target, and a call that drops dequeues at most one packet more.
C25_CoDelDropsOnlyWhenDue ==
  (strategy[1].kind = "codel" /\ bench.op = "on_dequeue" /\ bench.before.queue # <<>>) =>
    /\ DropsOfCall > 0 => DropDue(bench.before, now)
    /\ ~DropDue(bench.before, now) => strategy[1].queue = Tail(bench.before.queue)
    /\ \A i \in 1..DropsOfCall :
         now - bench.before.queue[i].enqueue_time >= CodelTargetMs
    /\ Len(bench.before.queue) - Len(strategy[1].queue)
         = Min(DropsOfCall + 1, Len(bench.before.queue))
    /\ IsPrefix(bench.before.dropped, strategy[1].dropped)

\* a call dropped two heads and then, in dropping state before drop_next,
\* dequeued the third
C25_Witness ==
  /\ strategy[1].kind = "codel"
  /\ bench.op = "on_dequeue"
  /\ DropsOfCall = 2
  /\ Len(bench.before.queue) = 3
  /\ strategy[1].queue = <<>>
  /\ strategy[1].dropping
  /\ now < strategy[1].drop_next

\* C26: under CoDel a packet that a drop step of on_dequeue dropped is
\* discarded: the drainer does not pop it later and it is never counted in
\* packets_received.
C26_CoDelDroppedIsDiscarded ==
  strategy[1].kind = "codel" =>
    \A i \in 1..Len(strategy[1].dropped) :
      /\ \A j \in 1..Len(buffer[1]) : PacketKey(buffer[1][j]) # strategy[1].dropped[i]
      /\ \A j \in 1..Len(log[1].delivered) : log[1].delivered[j] # strategy[1].dropped[i]

\* C27: under CoDel a packet that arrives when the buffer already holds
\* buffer_size packets is dropped at enqueue, so the buffer never holds more,
\* in every state of CoDel and after any drops at dequeue.
C27_CoDelTailDropOnOverflow ==
  strategy[1].kind = "codel" => Len(buffer[1]) <= cfg.buffer_size

\* the denominator 1 - count p_b of the effective probability, on the scale of
\* RedBaseDen
RedDenominator(st) == RedBaseDen(st) - st.count * RedBaseNum(st, st.avg_queue)

RedInBand(st) == st.avg_queue >= st.min_th /\ st.avg_queue < st.max_th

\* C28: in every reachable RED state whose average lies between the
\* thresholds, the denominator 1 - count p_b is strictly positive and the
\* effective probability p_b / (1 - count p_b) lies in [0, 1]
C28_RedEffectiveProbabilityInUnitRange ==
  (strategy[1].kind = "red" /\ RedInBand(strategy[1])) =>
     /\ RedDenominator(strategy[1]) > 0
     /\ RedBaseNum(strategy[1], strategy[1].avg_queue) >= 0
     /\ RedBaseNum(strategy[1], strategy[1].avg_queue) <= RedDenominator(strategy[1])

\* C29: under BLUE every on_enqueue with queue_len at or above buffer_size
\* returns Drop and records the instant of the call as the last loss event,
\* and p_mark lies in [0, 1] in every state, so after every on_enqueue,
\* on_dequeue and update
C29_BlueOverflowDropsAndPMarkInRange ==
  strategy[1].kind = "blue" =>
    /\ strategy[1].p_mark \in 0..PpmOne
    /\ \A queue_len \in BenchQueueLens :
         queue_len >= strategy[1].buffer_size =>
           \A r \in BlueOnEnqueue(strategy[1], queue_len, now) :
             r.action = "Drop" /\ r.st.last_loss_event = now

\* an overflow drop whose aggressive increase was cut off at 1
C29_Witness ==
  /\ strategy[1].kind = "blue"
  /\ bench.op = "on_enqueue"
  /\ bench.action = "Drop"
  /\ strategy[1].last_loss_event = now
  /\ strategy[1].p_mark = PpmOne
  /\ bench.before.p_mark + 2 * BlueD1 > PpmOne

\* the instant of the latest call that changed p_mark, read in a state whose
\* latest call did change it: every change stamps one of the three instants
BlueLastChange(st) == Max(Max(st.last_increase, st.last_decrease), st.last_update)

\* a call that changes p_mark right after a call that changed it
BlueChangesApart ==
  (/\ strategy[1].kind = "blue"
   /\ bench.op \in {"on_enqueue", "on_dequeue", "update"}
   /\ bench.before.p_mark # strategy[1].p_mark
   /\ strategy'[1].p_mark # strategy[1].p_mark)
    => now - BlueLastChange(strategy[1]) >= BlueFreezeMs

\* C30: under BLUE a call that changes p_mark comes at least the freeze
\* interval of 100 ms after the previous call that changed it
C30_BlueChangesFreezeApart == [][BlueChangesApart]_vars

\* C31: an on_enqueue of PIE that restarts the burst window, which it does
\* for a packet arriving outside the window with queue_len < 10, accepts the
\* packet whatever drop_prob is
C31_PieShortQueueAccepted ==
  (/\ strategy[1].kind = "pie"
   /\ bench.op = "on_enqueue"
   /\ strategy[1].burst_start # bench.before.burst_start)
    => bench.action = "Accept"

\* C32: under FQ-CoDel the per-flow queues never hold more than buffer_size
\* packets in total; an on_enqueue that finds the total at buffer_size or
\* above returns Drop and leaves every flow queue and every flow's CoDel
\* state as they were
C32_FqCoDelTotalBounded ==
  strategy[1].kind = "fq-codel" =>
    /\ FqTotalQueueLength(strategy[1]) <= strategy[1].buffer_size
    /\ (bench.op = "on_enqueue"
          /\ FqTotalQueueLength(bench.before) >= bench.before.buffer_size) =>
         /\ bench.action = "Drop"
         /\ strategy[1].flow_queues = bench.before.flow_queues
         /\ strategy[1].flow_states = bench.before.flow_states

\* a packet of a flow that has no state yet, turned away from full queues
C32_Witness ==
  /\ strategy[1].kind = "fq-codel"
  /\ bench.op = "on_enqueue"
  /\ bench.action = "Drop"
  /\ FqTotalQueueLength(bench.before) = bench.before.buffer_size
  /\ DOMAIN strategy[1].flow_states # Agents

\* C33: an update of FQ-CoDel removes the CoDel state of a flow only if that
\* state is idle and the flow's queue is empty, removes a queue only if it is
\* empty, and leaves every state and queue it keeps as it was
C33_FqCoDelUpdatePrunesIdleEmpty ==
  (strategy[1].kind = "fq-codel" /\ bench.op = "update") =>
    /\ \A f \in DOMAIN bench.before.flow_states \ DOMAIN strategy[1].flow_states :
         /\ ~FqStateBusy(bench.before.flow_states[f])
         /\ FqFlowQueueLength(bench.before, f) = 0
    /\ \A f \in DOMAIN bench.before.flow_queues \ DOMAIN strategy[1].flow_queues :
         bench.before.flow_queues[f] = <<>>
    /\ \A f \in DOMAIN strategy[1].flow_states :
         f \in DOMAIN bench.before.flow_states
           /\ strategy[1].flow_states[f] = bench.before.flow_states[f]
    /\ \A f \in DOMAIN strategy[1].flow_queues :
         f \in DOMAIN bench.before.flow_queues
           /\ strategy[1].flow_queues[f] = bench.before.flow_queues[f]

\* the handlers of server s that are inside enqueue_packet with the buffer
\* guard, and those that also have the strategy guard
HoldingBuffer(s) ==
  {a \in Agents : handler[a][s].pc \in {"lock_strategy", "on_enqueue", "match", "record"}}

HoldingStrategy(s) == {a \in Agents : handler[a][s].pc \in {"on_enqueue", "match", "record"}}

LockOrderStep ==
  \A s \in Servers :
    /\ (~buffer_lock[s] /\ buffer_lock'[s]) => (~strategy_lock[s] /\ ~strategy_lock'[s])
    /\ (~strategy_lock[s] /\ strategy_lock'[s]) => (buffer_lock[s] /\ buffer_lock'[s])
    /\ \A a \in Agents :
         (handler'[a][s] # handler[a][s] /\ metrics' # metrics) =>
           (buffer_lock[s] /\ strategy_lock[s])

\* whoever holds a lock of server s can take its next step
HolderCanStep ==
  \A s \in Servers :
    (buffer_lock[s] \/ strategy_lock[s]) =>
      \E a \in HoldingBuffer(s) : ENABLED HandlerStep(a, s)

Range(q) == {q[i] : i \in 1..Len(q)}

\* packet key was popped by the drainer of server 1 and counted
Received(key) ==
  \E i \in 1..Len(log[1].delivered) :
    log[1].delivered[i] = key /\ metrics.packets_received >= i

\* every pop is counted once, at the latest by the drainer's next step; no
\* packet is popped twice, and none that was refused at enqueue is popped
ReceivedOnce ==
  /\ metrics.packets_received
       = Len(log[1].delivered) - (IF drainer[1].pc = "received" THEN 1 ELSE 0)
  /\ \A i, j \in 1..Len(log[1].delivered) :
       log[1].delivered[i] = log[1].delivered[j] => i = j
  /\ Range(log[1].delivered) \cap Range(log[1].dropped) = {}
  /\ Range(log[1].delivered) \subseteq Range(log[1].accepted)

\* C36: with the drainer running, every packet accepted into the buffer of
\* server 1 is eventually popped and counted in packets_received, exactly
\* once; no packet is received twice and no packet dropped at enqueue is
\* received
C36_AcceptedEventuallyReceivedOnce ==
  /\ []ReceivedOnce
  /\ \A a \in Agents, id \in 0..(MaxPackets - 1) :
       (<<a, id>> \in Range(log[1].accepted)) ~> Received(<<a, id>>)

\* one packet was accepted, popped and counted, the other refused
C36_Witness ==
  /\ Len(log[1].delivered) = 1
  /\ metrics.packets_received = 1
  /\ Len(log[1].dropped) = 1
  /\ buffer[1] = <<>>

\* C37: in every reachable CoDel state, dropping implies that
\* first_above_time is set and count is at least 1, and count is 0 as long
\* as on_dequeue has not entered the dropping state, which is as long as it
\* has dropped nothing
C37_CoDelDroppingImpliesArmed ==
  strategy[1].kind = "codel" =>
    /\ strategy[1].dropping =>
         (strategy[1].first_above_time # None /\ strategy[1].count >= 1)
    /\ strategy[1].dropped = <<>> => (strategy[1].count = 0 /\ ~strategy[1].dropping)

\* on_dequeue has returned in the dropping state
C37_Witness ==
  /\ strategy[1].kind = "codel"
  /\ strategy[1].dropping
  /\ bench.op = "on_dequeue"
  /\ ~bench.before.dropping

\* the packets the latest call, an on_dequeue of CoDel, removed from CoDel's
\* queue, and those of them it dropped
RemovedByCall == Len(bench.before.queue) - Len(strategy[1].queue)

\* every iteration of the loop removes one packet, the last one by a normal
\* dequeue or not at all; a call on a non-empty queue removes at least one
CoDelCallRemoves ==
  /\ RemovedByCall >= 0
  /\ bench.before.queue # <<>> => RemovedByCall >= 1
  /\ RemovedByCall - DropsOfCall \in {0, 1}
  /\ strategy[1].queue
       = SubSeq(bench.before.queue, RemovedByCall + 1, Len(bench.before.queue))

CoDelQuiet == ~strategy[1].dropping /\ strategy[1].first_above_time = None

\* C38 as stated: every on_dequeue of CoDel ends, each iteration removing one
\* packet, and a call that finds the queue empty or leaves it empty leaves
\* dropping false and first_above_time unset
C38_CoDelOnDequeueTerminates ==
  (strategy[1].kind = "codel" /\ bench.op = "on_dequeue") =>
    /\ CoDelCallRemoves
    /\ (bench.before.queue = <<>> \/ strategy[1].queue = <<>>) => CoDelQuiet

\* C38: every on_dequeue of CoDel ends, each iteration removing one packet,
\* and a call that finds the queue empty, at its start or after dropping the
\* last packet, leaves dropping false and first_above_time unset
C38_CoDelOnDequeueTerminatesAtEmptyTest ==
  (strategy[1].kind = "codel" /\ bench.op = "on_dequeue") =>
    /\ CoDelCallRemoves
    /\ (bench.before.queue = <<>>
          \/ (strategy[1].queue = <<>> /\ DropsOfCall = RemovedByCall)) => CoDelQuiet

\* a call that dropped the two packets it found and so left the dropping
\* state it had entered
C38_Witness ==
  /\ strategy[1].kind = "codel"
  /\ bench.op = "on_dequeue"
  /\ Len(bench.before.queue) = 2
  /\ strategy[1].queue = <<>>
  /\ DropsOfCall = 2
  /\ strategy[1].count = 2

\* C39: under FQ-CoDel, whenever the drainer is not between its pop and its
\* on_dequeue call (and no handler is inside the critical section of
\* enqueue_packet, between the decision and the push), the per-flow queues
\* hold as many packets in total as the server's buffer
C39_FqCoDelMirrorsBuffer ==
  (/\ strategy[1].kind = "fq-codel"
   /\ drainer[1].pc \notin {"received", "read_len", "on_dequeue"}
   /\ \A a \in Agents : handler[a][1].pc # "match")
    => FqTotalQueueLength(strategy[1]) = Len(buffer[1])

\* one packet delivered and its on_dequeue made, the other packet still
\* queued, the drainer asleep
C39_Witness ==
  /\ strategy[1].kind = "fq-codel"
  /\ drainer[1].pc = "sleep"
  /\ log[1].on_dequeue = 1
  /\ Len(buffer[1]) = 1
  /\ FqTotalQueueLength(strategy[1]) = 1
====
